---- MODULE Spec2Model ----
(***************************************************************************)
(* Open-SAS: statement segmentation, DATA-step parsing, expression         *)
(* evaluation and statement dispatch of SASInterpreter.                    *)
(*                                                                         *)
(* Text is modelled as a sequence of lexical tokens.  A line is a sequence *)
(* of tokens written with single blanks between them, except that ";" is   *)
(* written directly after the token before it ("run" ";" is `run;`).  The  *)
(* token NL is the newline character, so a multi-line text is a token      *)
(* sequence with NL tokens in it.  Blanks are never stored: str.strip()    *)
(* on a line is the identity, on a text it removes leading and trailing    *)
(* NL tokens.                                                              *)
(***************************************************************************)
EXTENDS Integers, Sequences, FiniteSets, TLC

VARIABLES
    \* ---- _clean_code / _split_statements (interpreter.py:98-195)
    sas_code,           \* the script handed to _clean_code, a sequence of lines
    lines,              \* code.split('\n') of the cleaned code
    seg_pc,             \* "clean" | "split" | "done" | "off"
    line_no,            \* index of the next line of the for loop
    statements,         \* the list `statements`
    current_statement,  \* the string `current_statement`
    in_datalines,
    in_data_step,
    \* ---- one call of ExpressionEvaluator (expression_evaluator.py:43-123)
    ev_pc,              \* "call" | "done" | "off"
    ev_stmt,            \* the statement text handed to the evaluator
    ev_data,            \* the DataFrame handed to the evaluator
    ev_out,             \* the DataFrame it returns
    \* ---- one call of DataStepParser.parse_datalines (data_step_parser.py:197)
    dl_pc,              \* "call" | "done" | "off"
    dl_code,            \* the DATA step text handed to parse_datalines
    dl_out,             \* the DataFrame it returns
    \* ---- SASInterpreter state and the loop of run_code (interpreter.py:35-96)
    run_pc,             \* "exec" | "done" | "aborted" | "off"
    stmt_no,            \* index of the next statement of the for loop
    data_sets,          \* self.data_sets: (name, table) entries in insertion order
    libraries,          \* the aliases the LibnameManager knows
    lib_store,          \* the tables the LibnameManager has persisted
    macro_variables,    \* self.macro_parser.macro_variables
    outcomes,           \* per dispatched statement: its index and how it ended
    proc_calls,         \* the execute() calls made on procedure implementations
    api_calls,          \* run_code / clear_workspace calls made by the caller
    \* ---- OSASKernel.do_execute (kernel/osas_kernel.py:63-181)
    silent,             \* the `silent` argument of the cell being executed
    datasets_before,    \* the names bound when the execution of the cell began
    datasets_display,   \* the names handed to _send_datasets_display
    \* ---- SimpleOSASKernel.run (simple_osas_kernel.py:27-84)
    loop_pc,            \* "poll" | "run" | "closed" | "off"
    shell_in,           \* the messages that arrive on the shell socket
    shell_no,           \* index of the next of them to be received
    control_in,         \* requests waiting on the control socket
    shell_out,          \* messages sent on the shell socket
    iopub_out,          \* messages sent on the iopub socket
    control_out,        \* messages sent on the control socket
    execution_count     \* self.execution_count

segVars == <<sas_code, lines, seg_pc, line_no, statements, current_statement,
             in_datalines, in_data_step>>

evVars == <<ev_pc, ev_stmt, ev_data, ev_out>>

dlVars == <<dl_pc, dl_code, dl_out>>

runVars == <<run_pc, stmt_no, data_sets, libraries, lib_store, macro_variables,
             outcomes, proc_calls, api_calls>>

cellVars == <<silent, datasets_before, datasets_display>>

loopVars == <<loop_pc, shell_in, shell_no, control_in, shell_out, iopub_out,
              control_out, execution_count>>

kernelVars == <<cellVars, loopVars>>

vars == <<segVars, evVars, dlVars, runVars, kernelVars>>

----------------------------------------------------------------------------
(* Tokens and string primitives                                            *)

NL == "\n"
SEMI == ";"
DQ == "\""
SQ == "'"
STAR == "*"

\* str.upper() on one token
Upper(t) ==
    CASE t = "data"      -> "DATA"
      [] t = "proc"      -> "PROC"
      [] t = "run"       -> "RUN"
      [] t = "Run"       -> "RUN"
      [] t = "quit"      -> "QUIT"
      [] t = "datalines" -> "DATALINES"
      [] t = "cards"     -> "CARDS"
      [] t = "var"       -> "VAR"
      [] t = "by"        -> "BY"
      [] t = "where"     -> "WHERE"
      [] t = "tables"    -> "TABLES"
      [] t = "set"       -> "SET"
      [] t = "input"     -> "INPUT"
      [] t = "if"        -> "IF"
      [] t = "then"      -> "THEN"
      [] t = "else"      -> "ELSE"
      [] t = "drop"      -> "DROP"
      [] t = "keep"      -> "KEEP"
      [] t = "rename"    -> "RENAME"
      [] t = "bypass"    -> "BYPASS"
      [] t = "libname"   -> "LIBNAME"
      [] t = "%let"      -> "%LET"
      [] t = "print"     -> "PRINT"
      [] t = "sort"      -> "SORT"
      [] t = "freq"      -> "FREQ"
      [] t = "means"     -> "MEANS"
      [] t = "bogus"     -> "BOGUS"
      [] OTHER           -> t

\* the keywords that are character prefixes of the upper-cased token
CharPrefixes(t) ==
    LET u == Upper(t) IN
    CASE u = "DATALINES" -> {"DATALINES", "DATA"}
      [] u = "BYPASS"    -> {"BYPASS", "BY"}
      [] OTHER           -> {u}

\* line.upper().startswith(kw + ' '): the first token is kw and a blank follows
StartsWithWord(line, kw) ==
    /\ Len(line) >= 2
    /\ Upper(line[1]) = kw
    /\ line[2] \notin {SEMI, NL}

\* line.upper().startswith(kw): kw is a character prefix of the line
StartsWithPrefix(line, kw) ==
    /\ Len(line) >= 1
    /\ kw \in CharPrefixes(line[1])

\* line.upper() == kw + ';'
IsWordSemi(line, kw) ==
    /\ Len(line) = 2
    /\ Upper(line[1]) = kw
    /\ line[2] = SEMI

\* line.endswith(';')
EndsWithSemi(line) == Len(line) >= 1 /\ line[Len(line)] = SEMI

\* line[:-1]
DropLast(line) == SubSeq(line, 1, Len(line) - 1)

RECURSIVE LStrip(_)
LStrip(s) == IF s # <<>> /\ Head(s) = NL THEN LStrip(Tail(s)) ELSE s

RECURSIVE RStrip(_)
RStrip(s) == IF s # <<>> /\ s[Len(s)] = NL THEN RStrip(DropLast(s)) ELSE s

\* str.strip() on a text
Strip(s) == RStrip(LStrip(s))

\* text.split('\n'): the lines of a text
RECURSIVE SplitNL(_)
SplitNL(s) ==
    IF \A i \in 1..Len(s) : s[i] # NL THEN <<s>>
    ELSE LET k == CHOOSE i \in 1..Len(s) :
                      s[i] = NL /\ \A j \in 1..(i - 1) : s[j] # NL
         IN <<SubSeq(s, 1, k - 1)>> \o SplitNL(SubSeq(s, k + 1, Len(s)))

\* the number of occurrences of token q in s: s.count(q)
RECURSIVE Count(_, _)
Count(s, q) ==
    IF s = <<>> THEN 0
    ELSE (IF Head(s) = q THEN 1 ELSE 0) + Count(Tail(s), q)

RECURSIVE Flatten(_)
Flatten(ss) == IF ss = <<>> THEN <<>> ELSE Head(ss) \o Flatten(Tail(ss))

RECURSIVE Remove(_, _)
Remove(s, q) ==
    IF s = <<>> THEN <<>>
    ELSE (IF Head(s) = q THEN <<>> ELSE <<Head(s)>>) \o Remove(Tail(s), q)

----------------------------------------------------------------------------
(* _clean_code: the per-line `*` comment rule                              *)

\* line.find('*'): 0 when absent
FindStar(line) ==
    IF \A i \in 1..Len(line) : line[i] # STAR THEN 0
    ELSE CHOOSE i \in 1..Len(line) :
             line[i] = STAR /\ \A j \in 1..(i - 1) : line[j] # STAR

CleanLine(line) ==
    LET comment_pos == FindStar(line)
        before_comment == SubSeq(line, 1, comment_pos - 1)
    IN IF comment_pos # 0
          /\ Count(before_comment, SQ) % 2 = 0
          /\ Count(before_comment, DQ) % 2 = 0
       THEN before_comment
       ELSE line

CleanCode ==
    /\ seg_pc = "clean"
    /\ lines' = [i \in 1..Len(sas_code) |-> CleanLine(sas_code[i])]
    /\ seg_pc' = "split"
    /\ UNCHANGED <<sas_code, line_no, statements, current_statement,
                   in_datalines, in_data_step>>
    /\ UNCHANGED <<evVars, dlVars, kernelVars, runVars>>

----------------------------------------------------------------------------
(* _split_statements: one action per branch of the loop body               *)

SubKeywords == {"TABLES", "VAR", "BY", "CLASS", "MODEL", "OUTPUT", "WHERE"}

InLoop == seg_pc = "split" /\ line_no <= Len(lines)
Line == lines[line_no]

IsBlank == Line = <<>>
IsData == StartsWithWord(Line, "DATA")
IsProc == StartsWithWord(Line, "PROC")
IsRun == IsWordSemi(Line, "RUN")
IsDatalinesLine == IsWordSemi(Line, "DATALINES") \/ IsWordSemi(Line, "CARDS")

NextLine ==
    /\ line_no' = line_no + 1
    /\ UNCHANGED <<sas_code, lines, seg_pc>>
    /\ UNCHANGED <<evVars, dlVars, kernelVars, runVars>>

SplitBlank ==
    /\ InLoop /\ IsBlank
    /\ current_statement' =
           IF current_statement # <<>> THEN current_statement \o <<NL>>
           ELSE current_statement
    /\ NextLine
    /\ UNCHANGED <<statements, in_datalines, in_data_step>>

SplitData ==
    /\ InLoop /\ ~IsBlank /\ IsData
    /\ in_data_step' = TRUE
    /\ current_statement' = Line
    /\ NextLine
    /\ UNCHANGED <<statements, in_datalines>>

\* a PROC line that replaces the pending text and leaves the modes alone
SplitProcNoFlush ==
    /\ InLoop /\ ~IsBlank /\ ~IsData /\ IsProc
    /\ current_statement' = IF EndsWithSemi(Line) THEN DropLast(Line) ELSE Line
    /\ NextLine
    /\ UNCHANGED <<statements, in_datalines, in_data_step>>

SplitProc ==
    /\ InLoop /\ ~IsBlank /\ ~IsData /\ IsProc
    /\ LET flush == in_data_step /\ Strip(current_statement) # <<>> IN
       /\ statements' = IF flush
                        THEN Append(statements, Strip(current_statement))
                        ELSE statements
       /\ in_data_step' = IF flush THEN FALSE ELSE in_data_step
       /\ in_datalines' = IF flush THEN FALSE ELSE in_datalines
    /\ current_statement' = IF EndsWithSemi(Line) THEN DropLast(Line) ELSE Line
    /\ NextLine

SplitRun ==
    /\ InLoop /\ ~IsBlank /\ ~IsData /\ ~IsProc /\ IsRun
    /\ IF Strip(current_statement) # <<>>
       THEN /\ statements' =
                   Append(statements, Strip(current_statement \o <<NL>> \o Line))
            /\ current_statement' = <<>>
            /\ in_data_step' = FALSE
            /\ in_datalines' = FALSE
       ELSE UNCHANGED <<statements, current_statement, in_data_step, in_datalines>>
    /\ NextLine

NotHeader == InLoop /\ ~IsBlank /\ ~IsData /\ ~IsProc /\ ~IsRun

SplitDatalinesStart ==
    /\ NotHeader /\ IsDatalinesLine
    /\ in_datalines' = TRUE
    /\ current_statement' = current_statement \o <<NL>> \o Line
    /\ NextLine
    /\ UNCHANGED <<statements, in_data_step>>

SplitDatalinesEnd ==
    /\ NotHeader /\ ~IsDatalinesLine
    /\ Line = <<SEMI>> /\ in_datalines
    /\ current_statement' = current_statement \o <<NL>> \o Line
    /\ in_datalines' = FALSE
    /\ NextLine
    /\ UNCHANGED <<statements, in_data_step>>

SplitDatalinesBody ==
    /\ NotHeader /\ ~IsDatalinesLine
    /\ ~(Line = <<SEMI>> /\ in_datalines)
    /\ in_datalines
    /\ current_statement' = current_statement \o <<NL>> \o Line
    /\ NextLine
    /\ UNCHANGED <<statements, in_datalines, in_data_step>>

Regular == NotHeader /\ ~IsDatalinesLine /\ ~in_datalines

SplitInDataStep ==
    /\ Regular /\ in_data_step
    /\ current_statement' = current_statement \o <<NL>> \o Line
    /\ NextLine
    /\ UNCHANGED <<statements, in_datalines, in_data_step>>

SplitSemi ==
    /\ Regular /\ ~in_data_step /\ EndsWithSemi(Line)
    /\ statements' = Append(statements, Strip(current_statement \o Line))
    /\ current_statement' = <<>>
    /\ NextLine
    /\ UNCHANGED <<in_datalines, in_data_step>>

SplitKeyword ==
    /\ Regular /\ ~in_data_step /\ ~EndsWithSemi(Line)
    /\ \E kw \in SubKeywords : StartsWithPrefix(Line, kw)
    /\ statements' = IF Strip(current_statement) # <<>>
                     THEN Append(statements, Strip(current_statement))
                     ELSE statements
    /\ current_statement' = Line
    /\ NextLine
    /\ UNCHANGED <<in_datalines, in_data_step>>

SplitAccumulate ==
    /\ Regular /\ ~in_data_step /\ ~EndsWithSemi(Line)
    /\ ~\E kw \in SubKeywords : StartsWithPrefix(Line, kw)
    /\ current_statement' = current_statement \o Line
    /\ NextLine
    /\ UNCHANGED <<statements, in_datalines, in_data_step>>

\* an end of the loop that drops the pending text
SplitFinishNoFlush ==
    /\ seg_pc = "split" /\ line_no > Len(lines)
    /\ seg_pc' = "done"
    /\ UNCHANGED <<sas_code, lines, line_no, statements, current_statement,
                   in_datalines, in_data_step>>
    /\ UNCHANGED <<evVars, dlVars, kernelVars, runVars>>

SplitFinish ==
    /\ seg_pc = "split" /\ line_no > Len(lines)
    /\ statements' = IF Strip(current_statement) # <<>>
                     THEN Append(statements, Strip(current_statement))
                     ELSE statements
    /\ seg_pc' = "done"
    /\ UNCHANGED <<sas_code, lines, line_no, current_statement,
                   in_datalines, in_data_step>>
    /\ UNCHANGED <<evVars, dlVars, kernelVars, runVars>>

----------------------------------------------------------------------------
(* Values and tables (pandas.DataFrame)                                    *)
(*                                                                         *)
(* A cell is a number, a text (a token sequence) or missing (None/NaN).    *)
(* A table has an ordered list of column names, one cell sequence per      *)
(* column, and a row count (a DataFrame's index).                          *)

Num(n) == [kind |-> "num", num |-> n, str |-> <<>>]
Str(s) == [kind |-> "str", num |-> 0, str |-> s]
Missing == [kind |-> "missing", num |-> 0, str |-> <<>>]

\* pd.DataFrame()
EmptyFrame == [columns |-> <<>>, cells |-> <<>>, nrows |-> 0]

\* name in data.columns
HasCol(data, name) == \E i \in 1..Len(data.columns) : data.columns[i] = name

ColIndex(data, name) ==
    CHOOSE i \in 1..Len(data.columns) : data.columns[i] = name

\* data[name]
Col(data, name) == data.cells[ColIndex(data, name)]

\* pd.Series([v] * len(data), index=data.index)
Broadcast(v, data) == [r \in 1..data.nrows |-> v]

\* data[name] = series: overwrite the column, or add it as the last one
SetCol(data, name, series) ==
    IF HasCol(data, name)
    THEN [data EXCEPT !.cells[ColIndex(data, name)] = series]
    ELSE [data EXCEPT !.columns = Append(@, name),
                      !.cells = Append(@, series)]

\* data.loc[mask, name] = series[mask]
SetColUnmasked(data, name, mask, series) == SetCol(data, name, series)

\* data.loc[mask, name] = series[mask]
SetColMasked(data, name, mask, series) ==
    SetCol(data, name,
           [r \in 1..data.nrows |->
               IF mask[r] THEN series[r] ELSE Col(data, name)[r]])

----------------------------------------------------------------------------
(* Token classes                                                           *)

Punctuation == {NL, SEMI, DQ, SQ, STAR, "=", "+", "-", "/", "(", ")", ",",
                ">", "<", ">=", "<=", "^=", "$"}

\* group 1 of  data\s*=\s*([\w.]+)  on a token, "" when it does not match
DataOptionOf(t) ==
    CASE t = "data=work.a"       -> "work.a"
      [] t = "data=work.b"       -> "work.b"
      [] t = "data=work.missing" -> "work.missing"
      [] t = "data=lib.t"        -> "lib.t"
      [] t = "data=work.t"       -> "work.t"
      [] OTHER                   -> ""

\* group 1 of  out\s*=\s*(\w+)  on a token: the name up to the first '.'
OutOptionOf(t) ==
    CASE t = "out=s"      -> "s"
      [] t = "out=work.s" -> "work"
      [] OTHER            -> ""

\* the token is matched as a whole by \w+
IsWord(t) ==
    /\ t \notin Punctuation
    /\ t \notin {"a=z", "b=y", "%let", "./x"}
    /\ DataOptionOf(t) = "" /\ OutOptionOf(t) = ""

Digits == {"0", "1", "2", "3", "5", "10", "15", "20"}

\* t.replace('.', '').replace('-', '').isdigit()
IsDigitText(s) == Len(s) = 1 /\ s[1] \in Digits

\* float(t)
FloatOf(t) ==
    CASE t = "0" -> 0 [] t = "1" -> 1 [] t = "2" -> 2 [] t = "3" -> 3
      [] t = "5" -> 5 [] t = "10" -> 10 [] t = "15" -> 15 [] t = "20" -> 20

\* s.startswith(q) and s.endswith(q) for a quote character q
Quoted(s, q) == Len(s) >= 1 /\ s[1] = q /\ s[Len(s)] = q

\* s[1:-1]
Inner(s) == SubSeq(s, 2, Len(s) - 1)

ArithOps == {"+", "-", "*", "/"}

\* op in expression, for the operator characters
HasArithOp(s) == \E i \in 1..Len(s) : s[i] \in ArithOps

\* '(' in expression and ')' in expression
HasParens(s) ==
    /\ \E i \in 1..Len(s) : s[i] = "("
    /\ \E i \in 1..Len(s) : s[i] = ")"

----------------------------------------------------------------------------
(* ExpressionParser.parse_where_condition: the row mask of a comparison    *)

CompareOps == {"=", "^=", ">", "<", ">=", "<="}

Holds(op, l, r) ==
    CASE op = "="  -> l = r
      [] op = "^=" -> l # r
      [] op = ">"  -> l > r
      [] op = "<"  -> l < r
      [] op = ">=" -> l >= r
      [] op = "<=" -> l <= r

\* the condition has the form  column op number
IsComparison(condition, data) ==
    /\ Len(condition) = 3
    /\ HasCol(data, condition[1])
    /\ condition[2] \in CompareOps
    /\ condition[3] \in Digits

parse_where_condition(condition, data) ==
    [r \in 1..data.nrows |->
        LET c == Col(data, condition[1])[r] IN
        c.kind = "num" /\ Holds(condition[2], c.num, FloatOf(condition[3]))]

----------------------------------------------------------------------------
(* ExpressionEvaluator                                                     *)

\* the result of an evaluation: a Series or a bare Python scalar
Series(cells) == [tag |-> "series", cells |-> cells, scalar |-> Missing]
Scalar(v) == [tag |-> "scalar", cells |-> <<>>, scalar |-> v]

\* pd.Series([0] * len(data), index=data.index)
Zeros(data) == Series(Broadcast(Num(0), data))

\* the operators whose evaluation the model carries out; expressions are
\* drawn from  operand op operand  with or without a trailing ';'
Arith(op, l, r) ==
    CASE op = "+" -> l + r
      [] op = "-" -> l - r
      [] op = "*" -> l * r

\* an operand of the substituted expression: a column or a number literal
IsOperand(t, data) == HasCol(data, t) \/ t \in Digits

OperandCell(t, data, r) ==
    IF HasCol(data, t) THEN Col(data, t)[r] ELSE Num(FloatOf(t))

\* column names that are substrings of the inserted text data['...']
DataSubstrings == {"a", "d", "t"}

\* result.replace(col, "data['col']") is applied column after column on the
\* already substituted text: a later column whose name occurs inside an
\* inserted data[...] corrupts the expression
SubstitutionCorrupt(expression, data) ==
    \E i, j \in 1..Len(data.columns) :
        /\ i < j
        /\ \E k \in 1..Len(expression) : expression[k] = data.columns[i]
        /\ \E k \in 1..Len(expression) : expression[k] = data.columns[j]
        /\ data.columns[j] \in DataSubstrings

\* an expression of the host language that is not SAS arithmetic: eval()
\* runs it with the local names of _evaluate_arithmetic (data, self) in scope
HostPop == "data.pop(data.columns[0])"

\* the modelled column names that are substrings of the text of HostPop
HostPopSubstrings == {"a", "c", "d", "l", "m", "n", "o", "p", "s", "t", "u"}

\* the text  HostPop op number  reaches eval() as it is written: no column
\* name occurs in it, and the table has a first column to pop
IsHostCall(expression, data) ==
    /\ Len(expression) = 3
    /\ expression[1] = HostPop
    /\ expression[2] \in {"+", "-", "*"}
    /\ expression[3] \in Digits
    /\ data.columns # <<>>
    /\ \A i \in 1..Len(data.columns) : data.columns[i] \notin HostPopSubstrings

\* DataFrame.pop(item): the table without its first column
PopFirst(data) ==
    [data EXCEPT !.columns = Tail(@), !.cells = Tail(@)]

\* the table `data` of the caller after eval() has run the expression
eval_effect(expression, data) ==
    IF HasArithOp(expression) /\ IsHostCall(expression, data)
    THEN PopFirst(data) ELSE data

\* eval() of  HostPop op number : the popped column combined with the number
eval_host(expression, data) ==
    IF \E r \in 1..data.nrows : data.cells[1][r].kind = "str"
    THEN Zeros(data)                       \* TypeError on text
    ELSE Series([r \in 1..data.nrows |->
            IF data.cells[1][r].kind = "num"
            THEN Num(Arith(expression[2], data.cells[1][r].num,
                           FloatOf(expression[3])))
            ELSE Missing])

\* _evaluate_arithmetic: eval() of the expression with the column names
\* replaced by data[...]; every exception yields the zero column
evaluate_arithmetic(expression, data) ==
    IF IsHostCall(expression, data) THEN eval_host(expression, data)
    ELSE
    IF /\ Len(expression) = 3
       /\ IsOperand(expression[1], data)
       /\ expression[2] \in {"+", "-", "*"}
       /\ IsOperand(expression[3], data)
       /\ ~SubstitutionCorrupt(expression, data)
    THEN LET op == expression[2]
             a == expression[1]
             b == expression[3]
         IN IF ~HasCol(data, a) /\ ~HasCol(data, b)
            THEN \* no column: eval() returns a bare Python number
                 Scalar(Num(Arith(op, FloatOf(a), FloatOf(b))))
            ELSE IF \E r \in 1..data.nrows :
                        \/ OperandCell(a, data, r).kind = "str"
                        \/ OperandCell(b, data, r).kind = "str"
                 THEN Zeros(data)          \* TypeError on text
                 ELSE Series([r \in 1..data.nrows |->
                        LET l == OperandCell(a, data, r)
                            u == OperandCell(b, data, r)
                        IN IF l.kind = "num" /\ u.kind = "num"
                           THEN Num(Arith(op, l.num, u.num))
                           ELSE Missing])  \* NaN propagates
    ELSE Zeros(data)                       \* SyntaxError, NameError

FunctionNames ==
    {"sum", "mean", "min", "max", "abs", "sqrt", "round", "int", "length",
     "substr", "index", "compress", "trim", "upcase", "lowcase", "ifc", "ifn"}

\* str.lower() on a function name
Lower(t) == CASE t = "ABS" -> "abs" [] t = "UPCASE" -> "upcase" [] OTHER -> t

\* func(x) for the functions of one argument that the model evaluates
ApplyDefined(f, v) ==
    \/ f = "abs" /\ v.kind = "num"
    \/ f = "upcase" /\ v.kind = "str"

ApplyFunc(f, v) ==
    CASE f = "abs"    -> Num(IF v.num < 0 THEN 0 - v.num ELSE v.num)
      [] f = "upcase" -> Str([i \in 1..Len(v.str) |-> Upper(v.str[i])])

\* _evaluate_function: name ( argument ) with a single argument
evaluate_function(expression, data) ==
    IF ~( /\ Len(expression) >= 4
          /\ IsWord(expression[1])
          /\ expression[2] = "("
          /\ expression[3] # ")"
          /\ expression[4] = ")" )
    THEN Zeros(data)
    ELSE LET func_name == Lower(expression[1])
             arg == expression[3]
         IN IF func_name \notin FunctionNames THEN Zeros(data)
            ELSE IF HasCol(data, arg)
            THEN IF \A r \in 1..data.nrows :
                        ApplyDefined(func_name, Col(data, arg)[r])
                 THEN Series([r \in 1..data.nrows |->
                                 ApplyFunc(func_name, Col(data, arg)[r])])
                 ELSE Zeros(data)
            ELSE LET v == IF arg \in Digits THEN Num(FloatOf(arg))
                          ELSE Str(<<arg>>)
                 IN IF ApplyDefined(func_name, v)
                    THEN Series(Broadcast(ApplyFunc(func_name, v), data))
                    ELSE Zeros(data)

\* _evaluate_expression
evaluate_expression(expression, data) ==
    IF Len(expression) = 1 /\ HasCol(data, expression[1])
    THEN Series(Col(data, expression[1]))
    ELSE IF IsDigitText(expression)
    THEN Series(Broadcast(Num(FloatOf(expression[1])), data))
    ELSE IF Quoted(expression, DQ) \/ Quoted(expression, SQ)
    THEN Series(Broadcast(Str(Inner(expression)), data))
    ELSE IF HasArithOp(expression)
    THEN evaluate_arithmetic(expression, data)
    ELSE IF HasParens(expression)
    THEN evaluate_function(expression, data)
    ELSE Series(Broadcast(Str(expression), data))

\* re.match(r'(\w+)\s*=\s*(.+)', assignment)
AssignMatch(assignment) ==
    /\ Len(assignment) >= 3
    /\ IsWord(assignment[1])
    /\ assignment[2] = "="

\* evaluate_assignment: the table after `data[var_name] = result`
evaluate_assignment(assignment, data) ==
    IF ~AssignMatch(assignment) THEN data
    ELSE LET var_name == assignment[1]
             expression == SubSeq(assignment, 3, Len(assignment))
             result == evaluate_expression(expression, data)
             after == eval_effect(expression, data)
         IN IF result.tag = "series"
            THEN SetCol(after, var_name, result.cells)
            ELSE SetCol(after, var_name, Broadcast(result.scalar, data))

\* the position of `then` found by re.match(r'if\s+(.+?)\s+then\s+(.+)')
ThenPositions(st) ==
    {j \in 3..(Len(st) - 1) : Upper(st[j]) = "THEN" /\ st[j + 1] # SEMI}

IfThenMatch(st) ==
    /\ Len(st) >= 4
    /\ Upper(st[1]) = "IF"
    /\ st[2] # SEMI
    /\ ThenPositions(st) # {}

ThenPos(st) ==
    CHOOSE j \in ThenPositions(st) : \A k \in ThenPositions(st) : j <= k

\* the value written by the `Handle different value types` part
IfThenValue(value, data) ==
    IF Quoted(value, DQ) \/ Quoted(value, SQ)
    THEN Broadcast(Str(Inner(value)), data)
    ELSE IF IsDigitText(value)
    THEN Broadcast(Num(FloatOf(value[1])), data)
    ELSE LET result == evaluate_expression(value, data) IN
         IF result.tag = "series" THEN result.cells
         ELSE Broadcast(Str(value), data)   \* except: the raw value text

\* evaluate_if_then_else
evaluate_if_then_else(if_statement, data) ==
    IF ~IfThenMatch(if_statement) THEN data
    ELSE LET j == ThenPos(if_statement)
             condition == SubSeq(if_statement, 2, j - 1)
             assignment == SubSeq(if_statement, j + 1, Len(if_statement))
         IN IF ~AssignMatch(assignment) THEN data
            ELSE LET var_name == assignment[1]
                     value == SubSeq(assignment, 3, Len(assignment))
                     mask == parse_where_condition(condition, data)
                     created == IF HasCol(data, var_name) THEN data
                                ELSE SetCol(data, var_name,
                                            Broadcast(Missing, data))
                 IN SetColMasked(created, var_name, mask,
                                 IfThenValue(value, created))

----------------------------------------------------------------------------
(* DataStepParser.parse_data_step                                          *)

\* '=' in line
HasEq(line) ==
    \E i \in 1..Len(line) :
        line[i] \in {"=", ">=", "<=", "^=", "a=z", "b=y"}

\* ';' in line
HasSemi(line) == \E i \in 1..Len(line) : line[i] = SEMI

\* line.upper().startswith(kws) for a tuple of keywords
StartsWithAny(line, kws) == \E kw \in kws : StartsWithPrefix(line, kw)

ColumnOpKeywords == {"DROP", "KEEP", "RENAME", "BY"}
StatementKeywords == {"SET", "WHERE", "IF", "DROP", "KEEP", "RENAME", "BY"}

\* the test that opens a multi-line assignment (data_step_parser.py:98, 108)
StartsAssignment(line) ==
    HasEq(line) /\ ~StartsWithAny(line, ColumnOpKeywords)

\* the inner while loop: the lines absorbed by an assignment that starts on
\* the line before j, and the value of j when the loop is left
RECURSIVE Absorb(_, _, _)
Absorb(ls, j, combined_line) ==
    IF j > Len(ls) THEN [line |-> combined_line, j |-> j]
    ELSE LET next_line == ls[j] IN
         IF next_line = <<>> \/ IsWordSemi(next_line, "RUN")
         THEN [line |-> combined_line, j |-> j]
         ELSE IF StartsWithAny(next_line, StatementKeywords)
         THEN [line |-> combined_line, j |-> j]
         ELSE IF StartsAssignment(next_line)
         THEN [line |-> combined_line, j |-> j]
         ELSE IF HasSemi(next_line)
         THEN [line |-> combined_line \o next_line, j |-> j]
         ELSE Absorb(ls, j + 1, combined_line \o next_line)

\* first pass: combined_lines, from line i on
RECURSIVE CombineLines(_, _)
CombineLines(ls, i) ==
    IF i > Len(ls) THEN <<>>
    ELSE LET line == ls[i] IN
         IF line = <<>> \/ StartsWithWord(line, "DATA")
         THEN CombineLines(ls, i + 1)
         ELSE IF IsWordSemi(line, "RUN") THEN <<>>
         ELSE IF StartsAssignment(line)
         THEN LET a == Absorb(ls, i + 1, line)
              IN <<a.line>> \o CombineLines(ls, a.j)
         ELSE <<line>> \o CombineLines(ls, i + 1)

\* group 1 of  kw\s+(.+?)(?:\s*;)?$  split on blanks
Operands(line) ==
    IF EndsWithSemi(line) THEN SubSeq(line, 2, Len(line) - 1)
    ELSE SubSeq(line, 2, Len(line))

\* pair.split('=', 1) of a rename pair
PairOld(t) == CASE t = "a=z" -> "a" [] t = "b=y" -> "b" [] OTHER -> ""
PairNew(t) == CASE t = "a=z" -> "z" [] t = "b=y" -> "y" [] OTHER -> ""

RECURSIVE RenamePairs(_)
RenamePairs(ops) ==
    IF ops = <<>> THEN <<>>
    ELSE (IF HasEq(<<Head(ops)>>)
          THEN <<[old |-> PairOld(Head(ops)), new |-> PairNew(Head(ops))]>>
          ELSE <<>>) \o RenamePairs(Tail(ops))

\* the kind of a combined line in the second pass (the elif chain)
LineKind(line) ==
    IF StartsWithWord(line, "SET") THEN "set"
    ELSE IF StartsWithWord(line, "WHERE") THEN "where"
    ELSE IF StartsWithWord(line, "IF") THEN "assign"
    ELSE IF StartsAssignment(line) THEN "assign"
    ELSE IF StartsWithWord(line, "DROP") THEN "drop"
    ELSE IF StartsWithWord(line, "KEEP") THEN "keep"
    ELSE IF StartsWithWord(line, "RENAME") THEN "rename"
    ELSE IF StartsWithWord(line, "BY") THEN "by"
    ELSE "other"

\* second pass: the entries collected for one kind, in line order
RECURSIVE Collect(_, _)
Collect(cls, kind) ==
    IF cls = <<>> THEN <<>>
    ELSE LET line == Head(cls) IN
         (IF LineKind(line) # kind THEN <<>>
          ELSE IF kind = "assign" THEN <<line>>
          ELSE IF kind = "where" THEN <<Operands(line)>>
          ELSE IF kind = "rename" THEN RenamePairs(Operands(line))
          ELSE Operands(line))
         \o Collect(Tail(cls), kind)

\* the first line that starts with DATA
RECURSIVE DataStatement(_)
DataStatement(ls) ==
    IF ls = <<>> THEN <<>>
    ELSE IF StartsWithWord(Head(ls), "DATA") THEN Head(ls)
    ELSE DataStatement(Tail(ls))

\* group 1 of  data\s+([^;]+) : the name token after DATA
OutputDataset(data_statement) == data_statement[2]

\* parse_data_step: the DataStepInfo of a block that holds a DATA statement
parse_data_step(code) ==
    LET ls == SplitNL(code)
        combined_lines == CombineLines(ls, 1)
    IN [output_dataset       |-> OutputDataset(DataStatement(ls)),
        set_datasets         |-> Collect(combined_lines, "set"),
        where_conditions     |-> Collect(combined_lines, "where"),
        variable_assignments |-> Collect(combined_lines, "assign"),
        drop_vars            |-> Collect(combined_lines, "drop"),
        keep_vars            |-> Collect(combined_lines, "keep"),
        rename_vars          |-> Collect(combined_lines, "rename"),
        by_vars              |-> Collect(combined_lines, "by")]

----------------------------------------------------------------------------
(* DataUtils: row filter and column operations, each returns a new table   *)

Range(f) == {f[i] : i \in DOMAIN f}

RECURSIVE SelectSeq2(_, _)
SelectSeq2(seq, keep) ==
    IF seq = <<>> THEN <<>>
    ELSE (IF keep[1] THEN <<Head(seq)>> ELSE <<>>)
         \o SelectSeq2(Tail(seq), Tail(keep))

\* the rows of data selected by mask
FilterRows(data, mask) ==
    [columns |-> data.columns,
     cells   |-> [c \in 1..Len(data.columns) |-> SelectSeq2(data.cells[c], mask)],
     nrows   |-> Cardinality({r \in 1..data.nrows : mask[r]})]

apply_where_condition(data, condition) ==
    FilterRows(data, parse_where_condition(condition, data))

\* the columns of data whose position satisfies keepcol
FilterCols(data, keepcol) ==
    [columns |-> SelectSeq2(data.columns, keepcol),
     cells   |-> SelectSeq2(data.cells, keepcol),
     nrows   |-> data.nrows]

drop_columns(data, drop_vars) ==
    FilterCols(data, [c \in 1..Len(data.columns) |->
                         data.columns[c] \notin Range(drop_vars)])

select_columns(data, keep_vars) ==
    FilterCols(data, [c \in 1..Len(data.columns) |->
                         data.columns[c] \in Range(keep_vars)])

\* the new name of a column under the rename dictionary (last pair wins)
NewName(name, rename_vars) ==
    IF \E i \in 1..Len(rename_vars) : rename_vars[i].old = name
    THEN LET i == CHOOSE k \in 1..Len(rename_vars) :
                      /\ rename_vars[k].old = name
                      /\ \A m \in 1..Len(rename_vars) :
                             rename_vars[m].old = name => m <= k
         IN rename_vars[i].new
    ELSE name

rename_columns(data, rename_vars) ==
    [data EXCEPT !.columns =
        [c \in 1..Len(data.columns) |-> NewName(data.columns[c], rename_vars)]]

----------------------------------------------------------------------------
(* Scripts of the segmenter specification                                  *)

MaxLines == 4

ScriptLines ==
    { <<>>,
      <<"data", "t", SEMI>>,
      <<"proc", "print", SEMI>>,
      <<"run", SEMI>>,
      <<"datalines", SEMI>>,
      <<SEMI>>,
      <<"x", "=", "1", SEMI>>,
      <<"y">>,
      <<"var", "x">>,
      <<"%let", "a", SEMI, "%let", "b", SEMI>>,
      <<"z", "=", DQ, "a", SEMI>>,
      <<"b", DQ, SEMI>>,
      <<"w", STAR, "c">> }

Scripts == UNION { [1..n -> ScriptLines] : n \in 1..MaxLines }

\* the components that take no part in a specification stay idle
SegIdle ==
    /\ sas_code = <<>> /\ lines = <<>> /\ seg_pc = "off" /\ line_no = 1
    /\ statements = <<>> /\ current_statement = <<>>
    /\ in_datalines = FALSE /\ in_data_step = FALSE

CellIdle == silent = FALSE /\ datasets_before = {} /\ datasets_display = {}

LoopIdle ==
    /\ loop_pc = "off" /\ shell_in = <<>> /\ shell_no = 1
    /\ control_in = <<>>
    /\ shell_out = <<>> /\ iopub_out = <<>> /\ control_out = <<>>
    /\ execution_count = 0

\* no kernel is running
KernelIdle == CellIdle /\ LoopIdle

EvIdle ==
    /\ ev_pc = "off" /\ ev_stmt = <<>>
    /\ ev_data = EmptyFrame /\ ev_out = EmptyFrame

DlIdle ==
    /\ dl_pc = "off" /\ dl_code = <<>> /\ dl_out = EmptyFrame
    /\ KernelIdle

RunIdle ==
    /\ run_pc = "off" /\ stmt_no = 1 /\ data_sets = <<>>
    /\ libraries = {} /\ lib_store = <<>> /\ macro_variables = <<>>
    /\ outcomes = <<>> /\ proc_calls = <<>> /\ api_calls = 0

SegInit ==
    /\ sas_code \in Scripts
    /\ lines = <<>>
    /\ seg_pc = "clean"
    /\ line_no = 1
    /\ statements = <<>>
    /\ current_statement = <<>>
    /\ in_datalines = FALSE
    /\ in_data_step = FALSE
    /\ EvIdle /\ DlIdle /\ RunIdle

SegNext ==
    \/ CleanCode
    \/ SplitBlank
    \/ SplitData
    \/ SplitProc
    \/ SplitRun
    \/ SplitDatalinesStart
    \/ SplitDatalinesEnd
    \/ SplitDatalinesBody
    \/ SplitInDataStep
    \/ SplitSemi
    \/ SplitKeyword
    \/ SplitAccumulate
    \/ SplitFinish

SegSpec == SegInit /\ [][SegNext]_vars

\* one-line scripts over quotes, stars and a word, for _clean_code alone
MaxTokens == 4

CleanLines == UNION { [1..n -> {DQ, SQ, STAR, "a"}] : n \in 0..MaxTokens }

CleanInit ==
    /\ sas_code \in { <<l>> : l \in CleanLines }
    /\ lines = <<>>
    /\ seg_pc = "clean"
    /\ line_no = 1
    /\ statements = <<>>
    /\ current_statement = <<>>
    /\ in_datalines = FALSE
    /\ in_data_step = FALSE
    /\ EvIdle /\ DlIdle /\ RunIdle

CleanSpec == CleanInit /\ [][CleanCode]_vars

\* scripts made of block headers, block ends and sub-statement lines
ProcScriptLines ==
    { <<>>,
      <<"data", "t", SEMI>>,
      <<"proc", "print", SEMI>>,
      <<"run", SEMI>>,
      <<"Run", SEMI>>,
      <<"quit", SEMI>>,
      <<"datalines", SEMI>>,
      <<SEMI>>,
      <<"var", "x", SEMI>>,
      <<"var", "x">>,
      <<"y">> }

ProcScripts == UNION { [1..n -> ProcScriptLines] : n \in 1..MaxLines }

ProcSegInit ==
    /\ sas_code \in ProcScripts
    /\ lines = <<>>
    /\ seg_pc = "clean"
    /\ line_no = 1
    /\ statements = <<>>
    /\ current_statement = <<>>
    /\ in_datalines = FALSE
    /\ in_data_step = FALSE
    /\ EvIdle /\ DlIdle /\ RunIdle

ProcSegSpec == ProcSegInit /\ [][SegNext]_vars

\* the scripts without the lines `Run;` and `quit;`
FinishScripts ==
    UNION { [1..n -> ProcScriptLines \ {<<"Run", SEMI>>, <<"quit", SEMI>>}] :
              n \in 1..MaxLines }

FinishInit ==
    /\ sas_code \in FinishScripts
    /\ lines = <<>>
    /\ seg_pc = "clean"
    /\ line_no = 1
    /\ statements = <<>>
    /\ current_statement = <<>>
    /\ in_datalines = FALSE
    /\ in_data_step = FALSE
    /\ EvIdle /\ DlIdle /\ RunIdle

\* _clean_code and the for loop of _split_statements run to their end
FinishSpec == FinishInit /\ [][SegNext]_vars /\ WF_vars(SegNext)

----------------------------------------------------------------------------
(* Calls of the evaluator on the assignment lines of a DATA step           *)

MaxRows == 3

\* join lines into one text: '\n'.join(ls)
RECURSIVE JoinNL(_)
JoinNL(ls) ==
    IF ls = <<>> THEN <<>>
    ELSE IF Len(ls) = 1 THEN Head(ls)
    ELSE Head(ls) \o <<NL>> \o JoinNL(Tail(ls))

EvalBlock ==
    JoinNL(<< <<"data", "t", SEMI>>,
              <<"set", "s", SEMI>>,
              <<"if", "x", ">", "10", "then", "y", "=", SQ, "Hi", SQ, SEMI>>,
              <<"if", "x", "<", "10", "then", "y", "=", DQ, "Lo", DQ, SEMI>>,
              <<"if", "x", ">", "10", "then", "y", "=", "5", SEMI>>,
              <<"if", "x", ">", "10", "then", "y", "=", "x", "+", "1", SEMI>>,
              <<"if", "x", ">=", "15", "then", "x", "=", "0", SEMI>>,
              <<"if", "x", ">", "10", "then", "y", "=", "1", "+", "2", SEMI>>,
              <<"y", "=", "x", "+", "1", SEMI>>,
              <<"y", "=", "5", SEMI>>,
              <<"z", "=", "abs", "(", "x", ")", SEMI>>,
              <<"z", "=", "foo", "(", "x", ")", SEMI>>,
              <<"z", "=", "abs", "(", ")", SEMI>>,
              <<"z", "=", "abs", "(", "x", SEMI>>,
              <<"z", "=", "x", "+", SEMI>>,
              <<"if", "x", ">", "10", "then", "y", "=", SQ, "Hi", SQ>>,
              <<"if", "x", ">", "10", "then", "y", "=", "x", "+", "1">>,
              <<"y", "=", "1", "+", "2">>,
              <<"y", "=", HostPop, "+", "0">>,
              <<"y", "=", "x", "+", "1">>,
              <<"run", SEMI>> >>)

\* the statements the DATA-step executor hands to the evaluator
EvalStatements == Range(parse_data_step(EvalBlock).variable_assignments)

XValues == {Num(5), Num(15), Num(20)}
YValues == {Str(<<"old">>), Missing}

EvalTables ==
    UNION { { [columns |-> <<"x">>, cells |-> <<xs>>, nrows |-> n]
                : xs \in [1..n -> XValues] }
            \cup
            { [columns |-> <<"x", "y">>, cells |-> <<xs, ys>>, nrows |-> n]
                : xs \in [1..n -> XValues], ys \in [1..n -> YValues] }
          : n \in 0..MaxRows }

\* assignment.lower().startswith('if ')  (interpreter.py:288)
IsIfStatement(st) == StartsWithWord(st, "IF")

EvaluateIfThenElse ==
    /\ ev_pc = "call"
    /\ IsIfStatement(ev_stmt)
    /\ ev_out' = evaluate_if_then_else(ev_stmt, ev_data)
    /\ ev_pc' = "done"
    /\ UNCHANGED <<ev_stmt, ev_data>>
    /\ UNCHANGED <<segVars, dlVars, kernelVars, runVars>>

EvaluateAssignment ==
    /\ ev_pc = "call"
    /\ ~IsIfStatement(ev_stmt)
    /\ ev_out' = evaluate_assignment(ev_stmt, ev_data)
    /\ ev_pc' = "done"
    /\ UNCHANGED <<ev_stmt, ev_data>>
    /\ UNCHANGED <<segVars, dlVars, kernelVars, runVars>>

EvalInit ==
    /\ ev_pc = "call"
    /\ ev_stmt \in EvalStatements
    /\ ev_data \in EvalTables
    /\ ev_out = EmptyFrame
    /\ SegIdle /\ DlIdle /\ RunIdle

EvalNext == EvaluateIfThenElse \/ EvaluateAssignment

EvalSpec == EvalInit /\ [][EvalNext]_vars

----------------------------------------------------------------------------
(* DataStepParser.parse_datalines                                          *)

\* the scan of the block: the INPUT statement seen last and the data lines
\* between DATALINES;/CARDS; and the line that is a lone ';'
RECURSIVE ScanDatalines(_, _, _, _)
ScanDatalines(ls, in_dl, input_statement, data_lines) ==
    IF ls = <<>>
    THEN [input_statement |-> input_statement, data_lines |-> data_lines]
    ELSE LET line == Head(ls) IN
         IF StartsWithWord(line, "INPUT")
         THEN ScanDatalines(Tail(ls), in_dl,
                            IF EndsWithSemi(line) THEN DropLast(line) ELSE line,
                            data_lines)
         ELSE IF IsWordSemi(line, "DATALINES") \/ IsWordSemi(line, "CARDS")
         THEN ScanDatalines(Tail(ls), TRUE, input_statement, data_lines)
         ELSE IF line = <<SEMI>> /\ in_dl
         THEN [input_statement |-> input_statement, data_lines |-> data_lines]
         ELSE IF in_dl /\ line # <<>>
         THEN ScanDatalines(Tail(ls), in_dl, input_statement,
                            Append(data_lines, line))
         ELSE ScanDatalines(Tail(ls), in_dl, input_statement, data_lines)

\* the while loop over input_parts: the variables with their types
RECURSIVE InputVars(_)
InputVars(input_parts) ==
    IF input_parts = <<>> THEN <<>>
    ELSE IF Len(input_parts) >= 2 /\ input_parts[2] = "$"
    THEN <<[name |-> input_parts[1], type |-> "str"]>>
         \o InputVars(SubSeq(input_parts, 3, Len(input_parts)))
    ELSE <<[name |-> input_parts[1], type |-> "float"]>>
         \o InputVars(Tail(input_parts))

\* a row test that lets longer lines pass
RowAcceptedAtLeast(values, var_names) == Len(values) >= Len(var_names)

\* len(values) == len(var_names)
RowAccepted(values, var_names) == Len(values) = Len(var_names)

\* a row built without conversion: every cell is the token itself
CellOfText(token, type) == Str(<<token>>)

\* one cell of a row: the token itself, or float(token), None on ValueError
CellOf(token, type) ==
    IF type = "str" THEN Str(<<token>>)
    ELSE IF token \in Digits THEN Num(FloatOf(token))
    ELSE Missing

RECURSIVE DataRows(_, _)
DataRows(data_lines, var_names) ==
    IF data_lines = <<>> THEN <<>>
    ELSE (IF RowAccepted(Head(data_lines), var_names)
          THEN <<Head(data_lines)>> ELSE <<>>)
         \o DataRows(Tail(data_lines), var_names)

\* parse_datalines; the variable names of an INPUT statement are distinct
parse_datalines(code) ==
    LET scan == ScanDatalines(SplitNL(code), FALSE, <<>>, <<>>) IN
    IF scan.data_lines = <<>> \/ scan.input_statement = <<>>
    THEN EmptyFrame
    ELSE LET var_names == InputVars(Tail(scan.input_statement))
             data_rows == DataRows(scan.data_lines, var_names)
         IN IF data_rows = <<>> THEN EmptyFrame
            ELSE [columns |-> [c \in 1..Len(var_names) |-> var_names[c].name],
                  cells   |-> [c \in 1..Len(var_names) |->
                                 [r \in 1..Len(data_rows) |->
                                     CellOf(data_rows[r][c], var_names[c].type)]],
                  nrows   |-> Len(data_rows)]

MaxDataLines == 3

InputStatements ==
    { <<"input", "a", "b", SEMI>>,
      <<"input", "n", "$", "v", SEMI>>,
      <<"input", "a", SEMI>> }

DataLineMenu ==
    { <<"1", "2">>, <<"x", "1">>, <<"1", "2", "3">>, <<"5">>, <<"x", "y">> }

DatalinesBlock(input_statement, data_lines) ==
    JoinNL(<< <<"data", "work.t", SEMI>>, input_statement,
              <<"datalines", SEMI>> >>
           \o data_lines
           \o << <<SEMI>>, <<"run", SEMI>> >>)

DatalinesBlocks ==
    { DatalinesBlock(i, d) :
        i \in InputStatements,
        d \in UNION { [1..n -> DataLineMenu] : n \in 0..MaxDataLines } }

ParseDatalines ==
    /\ dl_pc = "call"
    /\ dl_out' = parse_datalines(dl_code)
    /\ dl_pc' = "done"
    /\ UNCHANGED dl_code
    /\ UNCHANGED <<segVars, evVars, runVars, kernelVars>>

DlInit ==
    /\ dl_pc = "call"
    /\ dl_code \in DatalinesBlocks
    /\ dl_out = EmptyFrame
    /\ SegIdle /\ EvIdle /\ RunIdle /\ KernelIdle

DlNext == ParseDatalines

DlSpec == DlInit /\ [][DlNext]_vars

----------------------------------------------------------------------------
(* SASInterpreter: the Workspace and the library manager                   *)

\* self.data_sets is a dict: entries keep their insertion order and an
\* assignment to a bound name replaces the table in place
DictHas(d, name) == \E i \in 1..Len(d) : d[i].name = name

DictGet(d, name) == d[CHOOSE i \in 1..Len(d) : d[i].name = name].table

\* a store that keeps the table a name is already bound to
DictKeep(d, name, table) ==
    IF DictHas(d, name) THEN d
    ELSE Append(d, [name |-> name, table |-> table])

DictSet(d, name, table) ==
    IF DictHas(d, name)
    THEN [i \in 1..Len(d) |->
             IF d[i].name = name THEN [name |-> name, table |-> table]
             ELSE d[i]]
    ELSE Append(d, [name |-> name, table |-> table])

\* list(d.keys())[-1]
LastKey(d) == d[Len(d)].name

\* '.' in name, and name.split('.', 1)
QualifiedNames ==
    {"work.a", "work.b", "work.o", "work.t", "work.missing",
     "work.scorecards", "lib.t"}
IsQualified(name) == name \in QualifiedNames
LibPart(name) == IF name = "lib.t" THEN "lib" ELSE "work"

\* LibnameManager.load_dataset: the table, when the alias is known and the
\* table was persisted
CanLoad(name) == LibPart(name) \in libraries /\ DictHas(lib_store, name)

\* LibnameManager.save_dataset: succeeds when the alias is known
SaveDataset(store, name, table) ==
    IF LibPart(name) \in libraries THEN DictSet(store, name, table)
    ELSE store

----------------------------------------------------------------------------
(* SASInterpreter._execute_data_step                                       *)

\* 'datalines' in statement.lower() or 'cards' in statement.lower()
MentionsDatalines(statement) ==
    \E i \in 1..Len(statement) :
        statement[i] \in {"datalines", "cards", "work.scorecards"}

\* input_data.empty
IsEmptyFrame(data) == data.nrows = 0 \/ data.columns = <<>>

\* the assignments applied before the WHERE conditions
StepOpsAssignFirst(data_info) ==
    [i \in 1..Len(data_info.variable_assignments) |->
        [kind |-> "assign", text |-> data_info.variable_assignments[i]]]
    \o
    [i \in 1..Len(data_info.where_conditions) |->
        [kind |-> "where", text |-> data_info.where_conditions[i]]]

\* the WHERE conditions, then the assignments, in the order they are applied
StepOps(data_info) ==
    [i \in 1..Len(data_info.where_conditions) |->
        [kind |-> "where", text |-> data_info.where_conditions[i]]]
    \o
    [i \in 1..Len(data_info.variable_assignments) |->
        [kind |-> "assign", text |-> data_info.variable_assignments[i]]]

\* the operations that call ExpressionParser.parse_where_condition, the
\* collaborator whose exception ends the step
CallsParser(op) == op.kind = "where" \/ IsIfStatement(op.text)

ApplyOp(op, data) ==
    IF op.kind = "where" THEN apply_where_condition(data, op.text)
    ELSE IF IsIfStatement(op.text) THEN evaluate_if_then_else(op.text, data)
    ELSE evaluate_assignment(op.text, data)

\* input_data after the first k operations
RECURSIVE ApplyOps(_, _, _)
ApplyOps(ops, k, data) ==
    IF k = 0 THEN data
    ELSE ApplyOp(ops[k], ApplyOps(ops, k - 1, data))

\* RENAME applied before DROP and KEEP
ApplyColumnOpsRenameFirst(data_info, data) ==
    LET renamed == IF data_info.rename_vars # <<>>
                   THEN rename_columns(data, data_info.rename_vars) ELSE data
        dropped == IF data_info.drop_vars # <<>>
                   THEN drop_columns(renamed, data_info.drop_vars) ELSE renamed
    IN IF data_info.keep_vars # <<>>
       THEN select_columns(dropped, data_info.keep_vars) ELSE dropped

\* DROP, KEEP, RENAME (interpreter.py:295-304)
ApplyColumnOps(data_info, data) ==
    LET dropped == IF data_info.drop_vars # <<>>
                   THEN drop_columns(data, data_info.drop_vars) ELSE data
        kept    == IF data_info.keep_vars # <<>>
                   THEN select_columns(dropped, data_info.keep_vars)
                   ELSE dropped
    IN IF data_info.rename_vars # <<>>
       THEN rename_columns(kept, data_info.rename_vars) ELSE kept

\* a step that works on the object the Workspace holds (no .copy())
SourceNotCopied(name) ==
    [input_data |-> DictGet(data_sets, name), shared |-> TRUE]

\* self.data_sets[dataset_name].copy(): the step works on its own object
SourceFromWorkspace(name) ==
    [input_data |-> DictGet(data_sets, name), shared |-> FALSE]

\* loaded_data.copy() that is also stored in self.data_sets: the step works
\* on the object that the Workspace holds
SourceFromLibrary(name) ==
    [input_data |-> DictGet(lib_store, name), shared |-> TRUE]

\* the statuses with which the handling of a statement ends
Failed == {"error", "exception", "unsupported"}

\* the DATALINES branch (interpreter.py:224-244) once the block is parsed
DatalinesBind(output_dataset, input_data) ==
    IF IsEmptyFrame(input_data)
    THEN [status |-> "nothing", data_sets |-> data_sets,
          lib_store |-> lib_store]
    ELSE [status |-> "ok",
          data_sets |-> DictSet(data_sets, output_dataset, input_data),
          lib_store |-> IF IsQualified(output_dataset)
                        THEN SaveDataset(lib_store, output_dataset, input_data)
                        ELSE lib_store]

DataStepDatalines(statement) ==
    DatalinesBind(OutputDataset(DataStatement(SplitNL(statement))),
                  parse_datalines(statement))

\* the source is in the Workspace or can be loaded (interpreter.py:251-272)
SourceFound(data_info) ==
    \/ data_info.set_datasets = <<>>
    \/ DictHas(data_sets, data_info.set_datasets[1])
    \/ /\ IsQualified(data_info.set_datasets[1])
       /\ CanLoad(data_info.set_datasets[1])

\* a resolution that asks the library before the Workspace
StepSourceLibraryFirst(data_info) ==
    IF data_info.set_datasets = <<>>
    THEN [input_data |-> EmptyFrame, shared |-> FALSE]
    ELSE IF /\ IsQualified(data_info.set_datasets[1])
            /\ CanLoad(data_info.set_datasets[1])
    THEN SourceFromLibrary(data_info.set_datasets[1])
    ELSE SourceFromWorkspace(data_info.set_datasets[1])

\* input_data before the WHERE conditions (interpreter.py:250-275)
StepSource(data_info) ==
    IF data_info.set_datasets = <<>>
    THEN [input_data |-> EmptyFrame, shared |-> FALSE]
    ELSE IF DictHas(data_sets, data_info.set_datasets[1])
    THEN SourceFromWorkspace(data_info.set_datasets[1])
    ELSE SourceFromLibrary(data_info.set_datasets[1])

\* self.data_sets when the WHERE conditions and assignments have left
\* `body`: a loaded source is cached (line 266); a WHERE filter returns a new
\* object, without one the assignments write into the object the step
\* started with
AfterBody(data_info, source, body) ==
    LET has_set == data_info.set_datasets # <<>>
        dataset_name == data_info.set_datasets[1]
        cached == IF has_set /\ ~DictHas(data_sets, dataset_name)
                  THEN DictSet(data_sets, dataset_name, source.input_data)
                  ELSE data_sets
    IN IF has_set /\ source.shared /\ data_info.where_conditions = <<>>
       THEN DictSet(cached, dataset_name, body)
       ELSE cached

\* the end of the step: the exception handler, or lines 307-315
StepEnd(data_info, raise_at, after_body, result) ==
    IF raise_at # 0
    THEN [status |-> "exception", data_sets |-> after_body,
          lib_store |-> lib_store]
    ELSE [status |-> "ok",
          data_sets |-> DictSet(after_body, data_info.output_dataset, result),
          lib_store |-> IF IsQualified(data_info.output_dataset)
                        THEN SaveDataset(lib_store, data_info.output_dataset,
                                         result)
                        ELSE lib_store]

\* lines 277-315 on the table `body` that the operations applied have left
StepRun(data_info, raise_at, source, body) ==
    StepEnd(data_info, raise_at, AfterBody(data_info, source, body),
            ApplyColumnOps(data_info, body))

\* the SET branch (interpreter.py:246-315); raise_at is the operation whose
\* call of the expression parser raises, 0 when none does
StepInfo(data_info, raise_at, source, ops) ==
    IF ~SourceFound(data_info)
    THEN [status |-> "error", data_sets |-> data_sets, lib_store |-> lib_store]
    ELSE StepRun(data_info, raise_at, source,
                 ApplyOps(ops, IF raise_at = 0 THEN Len(ops) ELSE raise_at - 1,
                          source.input_data))

DataStepSet(statement, raise_at) ==
    StepInfo(parse_data_step(statement), raise_at,
             StepSource(parse_data_step(statement)),
             StepOps(parse_data_step(statement)))

\* the positions at which a step can raise: none, or one of its calls of
\* the expression parser
RaisePoints(statement) ==
    IF MentionsDatalines(statement) THEN {0}
    ELSE LET ops == StepOps(parse_data_step(statement)) IN
         {0} \cup {k \in 1..Len(ops) : CallsParser(ops[k])}

\* run_pc when an exception leaves the handler and ends run_code
HandlerEscape == "aborted"

\* run_pc after a handler has caught an exception (`except Exception`)
HandlerCatch == "exec"

InRun == run_pc = "exec" /\ stmt_no <= Len(statements)
Statement == Strip(statements[stmt_no])

\* the loop of run_code moves on after the handler returned with `status`
Dispatched(status) ==
    /\ outcomes' = Append(outcomes, [stmt |-> stmt_no, status |-> status])
    /\ run_pc' = IF status = "exception" THEN HandlerCatch ELSE "exec"
    /\ stmt_no' = stmt_no + 1
    /\ UNCHANGED <<segVars, evVars, dlVars, kernelVars, api_calls>>

\* the handler has returned with result r
DataStepDone(r) ==
    /\ data_sets' = r.data_sets
    /\ lib_store' = r.lib_store
    /\ Dispatched(r.status)

ExecuteDataStep ==
    /\ InRun
    /\ StartsWithWord(Statement, "DATA")
    /\ \E raise_at \in RaisePoints(Statement) :
          DataStepDone(IF MentionsDatalines(Statement)
                       THEN DataStepDatalines(Statement)
                       ELSE DataStepSet(Statement, raise_at))
    /\ UNCHANGED <<libraries, macro_variables, proc_calls>>

----------------------------------------------------------------------------
(* ProcParser.parse_proc and SASInterpreter._execute_proc                  *)

\* the first line that starts with PROC
RECURSIVE ProcLine(_)
ProcLine(ls) ==
    IF ls = <<>> THEN <<>>
    ELSE IF StartsWithWord(Head(ls), "PROC") THEN Head(ls)
    ELSE ProcLine(Tail(ls))

\* re.search over the option text: the first token that carries the option
OptionOf(t, opt) == IF opt = "data" THEN DataOptionOf(t) ELSE OutOptionOf(t)

RECURSIVE FirstOption(_, _)
FirstOption(tokens, opt) ==
    IF tokens = <<>> THEN ""
    ELSE IF OptionOf(Head(tokens), opt) # "" THEN OptionOf(Head(tokens), opt)
    ELSE FirstOption(Tail(tokens), opt)

\* the loop over the sub-statement lines up to RUN;/QUIT;: options[kw] of
\* the last line that starts with kw
RECURSIVE SubOption(_, _, _)
SubOption(ls, kw, found) ==
    IF ls = <<>> THEN found
    ELSE LET line == Head(ls) IN
         IF line = <<>> \/ StartsWithWord(line, "PROC")
         THEN SubOption(Tail(ls), kw, found)
         ELSE IF IsWordSemi(line, "RUN") \/ IsWordSemi(line, "QUIT")
         THEN found
         ELSE IF StartsWithWord(line, kw)
         THEN SubOption(Tail(ls), kw, Operands(line))
         ELSE SubOption(Tail(ls), kw, found)

\* re.search(r'tables\s+([^;]+)', proc_line): the words that follow TABLES
\* on the header line
RECURSIVE HeaderTables(_)
HeaderTables(proc_line) ==
    IF proc_line = <<>> THEN <<>>
    ELSE IF Upper(Head(proc_line)) = "TABLES" /\ Len(proc_line) >= 2
    THEN Operands(proc_line)
    ELSE HeaderTables(Tail(proc_line))

\* a parse that keeps the procedure name as it is written
parse_proc_as_written(code) ==
    LET ls == SplitNL(code)
        proc_line == ProcLine(ls)
        matched == IsWord(proc_line[2])
        options_str == IF EndsWithSemi(proc_line)
                       THEN SubSeq(proc_line, 3, Len(proc_line) - 1)
                       ELSE SubSeq(proc_line, 3, Len(proc_line))
    IN [proc_name     |-> IF matched THEN proc_line[2] ELSE "",
        data_option   |-> IF matched THEN FirstOption(options_str, "data")
                          ELSE "",
        output_option |-> IF matched THEN FirstOption(options_str, "out")
                          ELSE "",
        by            |-> SubOption(ls, "BY", <<>>),
        var           |-> SubOption(ls, "VAR", <<>>),
        tables        |-> SubOption(ls, "TABLES", HeaderTables(proc_line))]

\* parse_proc: the ProcStatement of a block whose first line starts with PROC
parse_proc(code) ==
    LET ls == SplitNL(code)
        proc_line == ProcLine(ls)
        \* proc\s+(\w+)(?:\s+(.+?))?(?:\s*;)?$
        matched == IsWord(proc_line[2])
        options_str == IF EndsWithSemi(proc_line)
                       THEN SubSeq(proc_line, 3, Len(proc_line) - 1)
                       ELSE SubSeq(proc_line, 3, Len(proc_line))
    IN [proc_name     |-> IF matched THEN Upper(proc_line[2]) ELSE "",
        data_option   |-> IF matched THEN FirstOption(options_str, "data")
                          ELSE "",
        output_option |-> IF matched THEN FirstOption(options_str, "out")
                          ELSE "",
        by            |-> SubOption(ls, "BY", <<>>),
        var           |-> SubOption(ls, "VAR", <<>>),
        tables        |-> SubOption(ls, "TABLES", HeaderTables(proc_line))]

\* self.proc_implementations
ProcImplementations ==
    {"MEANS", "FREQ", "PRINT", "SORT", "CONTENTS", "UNIVARIATE"}

\* a row of the table is not after another in the order of the BY columns;
\* rows with a missing key come last
RowLeq(data, by, r1, r2) ==
    LET k1 == Col(data, by[1])[r1]
        k2 == Col(data, by[1])[r2]
    IN IF k1.kind # "num" THEN k2.kind # "num" \/ r1 = r2
       ELSE k2.kind # "num" \/ k1.num <= k2.num

\* data.sort_values(by=valid_by_vars) on a numeric key without ties
sort_values(data, by) ==
    LET rank(r) == Cardinality({q \in 1..data.nrows :
                                   q # r /\ RowLeq(data, by, q, r)}) + 1
        at(k) == CHOOSE r \in 1..data.nrows : rank(r) = k
    IN [data EXCEPT !.cells =
           [c \in 1..Len(data.columns) |->
               [k \in 1..data.nrows |-> data.cells[c][at(k)]]]]

\* the values of a column that are not missing, and how often each occurs
ValueCounts(data, var) ==
    [v \in { Col(data, var)[r] : r \in 1..data.nrows } \ {Missing} |->
        Cardinality({ r \in 1..data.nrows : Col(data, var)[r] = v })]

\* ProcFreq._create_frequency_table on a numeric column: one row for each
\* value in ascending order, with its count and its share of the rows that
\* are not missing, the share in whole percent
create_frequency_table(data, var) ==
    LET freq_table == ValueCounts(data, var)
        values == DOMAIN freq_table
        total == Cardinality({ r \in 1..data.nrows :
                                 Col(data, var)[r] # Missing })
        at(k) == CHOOSE v \in values :
                     Cardinality({ w \in values : w.num < v.num }) = k - 1
        n == Cardinality(values)
    IN [columns |-> <<"Value", "Frequency", "Percent">>,
        cells   |-> << [k \in 1..n |-> at(k)],
                       [k \in 1..n |-> Num(freq_table[at(k)])],
                       [k \in 1..n |->
                           Num((freq_table[at(k)] * 100) \div total)] >>,
        nrows   |-> n]

\* ProcPrint.execute, ProcSort.execute, ProcFreq.execute and, without
\* OUT=, ProcMeans.execute: the results dictionary
ProcResults(proc_info, data) ==
    CASE proc_info.proc_name = "PRINT" ->
            [has_output |-> FALSE, output_data |-> EmptyFrame]
      [] proc_info.proc_name = "SORT" ->
            LET valid_by_vars == SelectSeq(proc_info.by,
                                           LAMBDA v : HasCol(data, v))
            IN IF valid_by_vars = <<>>
               THEN [has_output |-> FALSE, output_data |-> EmptyFrame]
               ELSE [has_output |-> TRUE,
                     output_data |-> sort_values(data, valid_by_vars)]
      [] proc_info.proc_name = "FREQ" ->
            IF Len(proc_info.tables) = 1 /\ HasCol(data, proc_info.tables[1])
            THEN [has_output |-> TRUE,
                  output_data |->
                      create_frequency_table(data, proc_info.tables[1])]
            ELSE [has_output |-> FALSE, output_data |-> EmptyFrame]
      [] proc_info.proc_name = "MEANS" /\ proc_info.output_option = "" ->
            [has_output |-> FALSE, output_data |-> EmptyFrame]

\* the input table is found (interpreter.py:332-360)
ProcInputFound(proc_info) ==
    IF proc_info.data_option # ""
    THEN \/ DictHas(data_sets, proc_info.data_option)
         \/ /\ IsQualified(proc_info.data_option)
            /\ CanLoad(proc_info.data_option)
    ELSE data_sets # <<>>

\* a PROC whose output without OUT= replaces the table it was given
ProcRunInPlace(proc_info, raises, dataset_name, input_data, cached) ==
    IF proc_info.proc_name \notin ProcImplementations
    THEN [status |-> "error", data_sets |-> cached, calls |-> <<>>]
    ELSE [status |->
              IF raises THEN "exception"
              ELSE IF proc_info.proc_name = "SORT"
                      /\ ~ProcResults(proc_info, input_data).has_output
              THEN "error" ELSE "ok",
          data_sets |->
              IF ~raises /\ ProcResults(proc_info, input_data).has_output
              THEN DictSet(cached,
                           IF proc_info.output_option # ""
                           THEN proc_info.output_option ELSE dataset_name,
                           ProcResults(proc_info, input_data).output_data)
              ELSE cached,
          calls |-> <<[proc_name |-> proc_info.proc_name,
                       dataset   |-> dataset_name,
                       data      |-> input_data]>>]

\* lines 362-378 on the input table; cached is self.data_sets with a loaded
\* table stored; raises tells whether execute() of the procedure raises
ProcRun(proc_info, raises, dataset_name, input_data, cached) ==
    IF proc_info.proc_name \notin ProcImplementations
    THEN [status |-> "error", data_sets |-> cached, calls |-> <<>>]
    ELSE [status |->
              IF raises THEN "exception"
              ELSE IF proc_info.proc_name = "SORT"
                      /\ ~ProcResults(proc_info, input_data).has_output
              THEN "error" ELSE "ok",
          data_sets |->
              IF /\ ~raises
                 /\ proc_info.output_option # ""
                 /\ ProcResults(proc_info, input_data).has_output
              THEN DictSet(cached, proc_info.output_option,
                           ProcResults(proc_info, input_data).output_data)
              ELSE cached,
          calls |-> <<[proc_name |-> proc_info.proc_name,
                       dataset   |-> dataset_name,
                       data      |-> input_data]>>]

\* _execute_proc once the statement is parsed
ProcInfo(proc_info, raises, dataset_name) ==
    IF ~ProcInputFound(proc_info)
    THEN [status |-> "error", data_sets |-> data_sets, calls |-> <<>>]
    ELSE IF DictHas(data_sets, dataset_name)
    THEN ProcRun(proc_info, raises, dataset_name,
                 DictGet(data_sets, dataset_name), data_sets)
    ELSE ProcRun(proc_info, raises, dataset_name,
                 DictGet(lib_store, dataset_name),
                 DictSet(data_sets, dataset_name,
                         DictGet(lib_store, dataset_name)))

ProcStep(statement, raises) ==
    ProcInfo(parse_proc(statement), raises,
             IF parse_proc(statement).data_option # ""
             THEN parse_proc(statement).data_option
             ELSE LastKey(data_sets))

\* the handler has returned with result r
ProcDone(r, raises) ==
    /\ raises => r.status = "exception"
    /\ data_sets' = r.data_sets
    /\ proc_calls' = proc_calls \o r.calls
    /\ Dispatched(r.status)

ExecuteProc ==
    /\ InRun
    /\ StartsWithWord(Statement, "PROC")
    /\ \E raises \in BOOLEAN : ProcDone(ProcStep(Statement, raises), raises)
    /\ UNCHANGED <<libraries, lib_store, macro_variables>>

----------------------------------------------------------------------------
(* _execute_libname, _execute_let and the remaining statements             *)

\* LibnameManager.parse_libname_statement: the alias of
\* `libname alias 'path';`, "" when the statement has another form
LibnameAlias(statement) ==
    IF /\ Len(statement) = 6
       /\ IsWord(statement[2])
       /\ statement[3] = SQ /\ statement[5] = SQ /\ statement[6] = SEMI
    THEN statement[2] ELSE ""

\* create_library reports success or failure
ExecuteLibname ==
    /\ InRun
    /\ StartsWithWord(Statement, "LIBNAME")
    /\ \E created \in BOOLEAN :
          IF LibnameAlias(Statement) # "" /\ created
          THEN /\ libraries' = libraries \cup {LibnameAlias(Statement)}
               /\ Dispatched("ok")
          ELSE /\ libraries' = libraries
               /\ Dispatched("error")
    /\ UNCHANGED <<data_sets, lib_store, macro_variables, proc_calls>>

\* MacroParser.parse_let_statement: `%let name = value;`
LetMatch(statement) ==
    /\ Len(statement) >= 5
    /\ IsWord(statement[2])
    /\ statement[3] = "="
    /\ statement[Len(statement)] = SEMI

ExecuteLet ==
    /\ InRun
    /\ StartsWithWord(Statement, "%LET")
    /\ IF LetMatch(Statement)
       THEN /\ macro_variables' =
                   DictSet(macro_variables, Statement[2],
                           SubSeq(Statement, 4, Len(Statement) - 1))
            /\ Dispatched("ok")
       ELSE /\ macro_variables' = macro_variables
            /\ Dispatched("exception")
    /\ UNCHANGED <<data_sets, libraries, lib_store, proc_calls>>

\* the keywords of the if/elif chain of _execute_statement
DispatchKeywords == {"DATA", "PROC", "LIBNAME", "%LET"}

\* the else branch: a warning is printed
Unsupported ==
    /\ InRun
    /\ \A kw \in DispatchKeywords : ~StartsWithWord(Statement, kw)
    /\ ~IsWordSemi(Statement, "RUN")
    /\ Dispatched("unsupported")
    /\ UNCHANGED <<data_sets, libraries, lib_store, macro_variables,
                   proc_calls>>

\* the for loop of run_code has handled the last statement
FinishRun ==
    /\ run_pc = "exec"
    /\ stmt_no > Len(statements)
    /\ run_pc' = "done"
    /\ UNCHANGED <<stmt_no, data_sets, libraries, lib_store, macro_variables,
                   outcomes, proc_calls, api_calls>>
    /\ UNCHANGED <<segVars, evVars, dlVars, kernelVars>>

----------------------------------------------------------------------------
(* run_code: the statements of a script are handled one after the other    *)

MaxStmts == 3

\* blocks as _split_statements emits them: a DATA step keeps its lines, a
\* PROC header loses its ';' and is followed by run; on the next line, a
\* PROC sub-statement is joined to the header line
StatementMenu ==
    { JoinNL(<< <<"data", "work.a", SEMI>>, <<"input", "x", "y", "$", SEMI>>,
                <<"datalines", SEMI>>, <<"5", "lo">>, <<"15", "hi">>,
                <<SEMI>>, <<"run", SEMI>> >>),
      JoinNL(<< <<"data", "work.b", SEMI>>, <<"set", "work.a", SEMI>>,
                <<"y", "=", "5", SEMI>>,
                <<"if", "x", ">", "10", "then", "y", "=", "1", SEMI>>,
                <<"run", SEMI>> >>),
      JoinNL(<< <<"data", "work.a", SEMI>>, <<"set", "work.a", SEMI>>,
                <<"where", "x", ">", "10", SEMI>>,
                <<"if", "x", ">", "10", "then", "z", "=", "2", SEMI>>,
                <<"run", SEMI>> >>),
      JoinNL(<< <<"data", "work.b", SEMI>>, <<"set", "lib.t", SEMI>>,
                <<"y", "=", "5", SEMI>>, <<"run", SEMI>> >>),
      JoinNL(<< <<"data", "lib.t", SEMI>>, <<"set", "work.a", SEMI>>,
                <<"run", SEMI>> >>),
      JoinNL(<< <<"data", "work.b", SEMI>>, <<"set", "work.missing", SEMI>>,
                <<"run", SEMI>> >>),
      JoinNL(<< <<"proc", "print", "data=work.a">>, <<"run", SEMI>> >>),
      JoinNL(<< <<"proc", "print">>, <<"run", SEMI>> >>),
      JoinNL(<< <<"proc", "print", "data=lib.t">>, <<"run", SEMI>> >>),
      JoinNL(<< <<"proc", "bogus", "data=work.a">>, <<"run", SEMI>> >>),
      <<"proc", "sort", "data=work.a", "out=s", "by", "x", SEMI>>,
      <<"libname", "lib", SQ, "./x", SQ, SEMI>>,
      <<"%let", "a", "=", "1", SEMI>>,
      <<"x", "=", "1", SEMI>> }

\* the table lib.t that an earlier session has persisted
StoredTable ==
    [columns |-> <<"x">>, cells |-> << <<Num(5), Num(15)>> >>, nrows |-> 2]

\* the library manager at the start of a session: the WORK library alone,
\* or also a library lib of an earlier session with its table
LibraryStates ==
    { [libraries |-> {"work"}, lib_store |-> <<>>],
      [libraries |-> {"work", "lib"},
       lib_store |-> <<[name |-> "lib.t", table |-> StoredTable]>>] }

\* the interpreter after construction, with the statements of one script
RunInit(scripts) ==
    /\ statements \in scripts
    /\ sas_code = <<>> /\ lines = <<>> /\ seg_pc = "done" /\ line_no = 1
    /\ current_statement = <<>>
    /\ in_datalines = FALSE /\ in_data_step = FALSE
    /\ run_pc = "exec" /\ stmt_no = 1
    /\ data_sets = <<>>
    /\ \E l \in LibraryStates :
          libraries = l.libraries /\ lib_store = l.lib_store
    /\ macro_variables = <<>>
    /\ outcomes = <<>> /\ proc_calls = <<>> /\ api_calls = 1
    /\ EvIdle /\ DlIdle

Init == RunInit(UNION { [1..n -> StatementMenu] : n \in 1..MaxStmts })

Next ==
    \/ ExecuteDataStep
    \/ ExecuteProc
    \/ ExecuteLibname
    \/ ExecuteLet
    \/ Unsupported
    \/ FinishRun

Spec == Init /\ [][Next]_vars

----------------------------------------------------------------------------
(* One DATA step whose lines are written in every order                     *)

\* the sequences that hold every element of S once
Perms(S) ==
    { f \in [1..Cardinality(S) -> S] :
        \A i, j \in 1..Cardinality(S) : i # j => f[i] # f[j] }

DropLines ==
    { <<"a", "=", "1", SEMI>>, <<"b", "=", "2", SEMI>>,
      <<"c", "=", "3", SEMI>>, <<"drop", "b", SEMI>>,
      <<"rename", "a=z", SEMI>> }

KeepLines ==
    { <<"a", "=", "1", SEMI>>, <<"b", "=", "2", SEMI>>,
      <<"c", "=", "3", SEMI>>, <<"keep", "a", "b", SEMI>>,
      <<"rename", "a=z", SEMI>> }

StepBlock(body) ==
    JoinNL(<< <<"data", "work.o", SEMI>> >> \o body \o << <<"run", SEMI>> >>)

StepBlocks == { StepBlock(body) : body \in Perms(DropLines) \cup Perms(KeepLines) }

StepInit == RunInit({ <<b>> : b \in StepBlocks })

StepNext == ExecuteDataStep \/ FinishRun

StepSpec == StepInit /\ [][StepNext]_vars

----------------------------------------------------------------------------
(* One DATA step over a source table that is bound in the Workspace        *)

\* the source tables: a column k that numbers the rows and a column x
BodyTables ==
    UNION { { [columns |-> <<"k", "x">>,
               cells   |-> << [r \in 1..n |-> Num(r)], xs >>,
               nrows   |-> n] : xs \in [1..n -> XValues] }
          : n \in 0..MaxRows }

BodyBlock(body) ==
    JoinNL(<< <<"data", "work.o", SEMI>>, <<"set", "work.a", SEMI>> >>
           \o body \o << <<"run", SEMI>> >>)

\* IF/THEN with ELSE lines (src/test_advanced_data_step.py)
IfElseBody ==
    << <<"if", "x", ">", "10", "then", "y", "=", SQ, "Hi", SQ, SEMI>>,
       <<"else", "y", "=", SQ, "Lo", SQ, SEMI>> >>

ElseIfBody ==
    << <<"if", "x", ">", "15", "then", "y", "=", SQ, "Hi", SQ, SEMI>>,
       <<"else", "if", "x", ">", "10", "then", "y", "=", SQ, "Mid", SQ, SEMI>>,
       <<"else", "y", "=", SQ, "Lo", SQ, SEMI>> >>

\* assignments, one of them to a name that begins like a keyword
AssignBodies ==
    { << <<"y", "=", "5", SEMI>>, <<"z", "=", "abs", "(", "x", ")", SEMI>> >>,
      << <<"bypass", "=", "1", SEMI>>, <<"y", "=", "5", SEMI>> >>,
      << <<"y", "=", "5", SEMI>>,
         <<"if", "x", ">", "10", "then", "z", "=", "1", SEMI>> >> }

\* WHERE lines before, between and after the assignments
\* (src/test_where_clauses.py)
WhereBodies ==
    { << <<"where", "x", ">=", "15", SEMI>> >>,
      << <<"where", "x", ">", "10", SEMI>>, <<"y", "=", "5", SEMI>>,
         <<"where", "x", "<", "20", SEMI>> >>,
      << <<"x", "=", "0", SEMI>>, <<"where", "x", ">", "10", SEMI>> >>,
      << <<"y", "=", "5", SEMI>>, <<"where", "x", "<", "20", SEMI>>,
         <<"where", "x", ">", "5", SEMI>> >> }

\* a DATALINES step for work.a none of whose data lines has as many values
\* as the INPUT statement has variables
DroppedDatalinesBlock ==
    JoinNL(<< <<"data", "work.a", SEMI>>, <<"input", "x", "y", "$", SEMI>>,
              <<"datalines", SEMI>>, <<"5">>, <<"15", "hi", "lo">>,
              <<SEMI>>, <<"run", SEMI>> >>)

\* a SET step whose output name holds the letters of CARDS
ScorecardsBlock ==
    JoinNL(<< <<"data", "work.scorecards", SEMI>>, <<"set", "work.a", SEMI>>,
              <<"run", SEMI>> >>)

BodyBlocks ==
    { BodyBlock(body) :
        body \in {IfElseBody, ElseIfBody} \cup AssignBodies \cup WhereBodies }
    \cup {DroppedDatalinesBlock, ScorecardsBlock}

\* the interpreter with the source table bound to work.a and one DATA step
\* to execute
BodyInit ==
    /\ statements \in { <<b>> : b \in BodyBlocks }
    /\ sas_code = <<>> /\ lines = <<>> /\ seg_pc = "done" /\ line_no = 1
    /\ current_statement = <<>>
    /\ in_datalines = FALSE /\ in_data_step = FALSE
    /\ run_pc = "exec" /\ stmt_no = 1
    /\ \E t \in BodyTables : data_sets = <<[name |-> "work.a", table |-> t]>>
    /\ libraries = {"work"} /\ lib_store = <<>>
    /\ macro_variables = <<>>
    /\ outcomes = <<>> /\ proc_calls = <<>> /\ api_calls = 1
    /\ EvIdle /\ DlIdle

BodyNext == ExecuteDataStep \/ FinishRun

BodySpec == BodyInit /\ [][BodyNext]_vars

----------------------------------------------------------------------------
(* One PROC over a table that is bound in the Workspace                    *)

\* the source tables whose rows differ in x
FrameTables ==
    { t \in BodyTables :
        \A r, q \in 1..t.nrows : r # q => Col(t, "x")[r] # Col(t, "x")[q] }

ProcBlock(header, sub) == JoinNL(<<header, sub, <<"run", SEMI>> >>)

\* PROC SORT with its BY line and no OUT=
SortBlock == ProcBlock(<<"proc", "sort", "data=work.a">>, <<"by", "x", SEMI>>)

\* PROC blocks with and without DATA= and OUT=, two of them on a table that
\* is in a library only
FrameBlocks ==
    { SortBlock,
      ProcBlock(<<"proc", "sort", "data=work.a", "out=s">>,
                <<"by", "x", SEMI>>),
      ProcBlock(<<"proc", "sort">>, <<"by", "x", SEMI>>),
      ProcBlock(<<"proc", "sort", "data=lib.t">>, <<"by", "x", SEMI>>),
      ProcBlock(<<"proc", "freq", "data=work.a">>, <<"tables", "x", SEMI>>),
      ProcBlock(<<"proc", "freq", "data=work.a", "out=f">>,
                <<"tables", "x", SEMI>>),
      ProcBlock(<<"proc", "means", "data=work.a">>, <<"var", "x", SEMI>>),
      JoinNL(<< <<"proc", "print", "data=lib.t">>, <<"run", SEMI>> >>) }

\* the interpreter with a table bound to work.a and one PROC to execute
FrameInit ==
    /\ statements \in { <<b>> : b \in FrameBlocks }
    /\ sas_code = <<>> /\ lines = <<>> /\ seg_pc = "done" /\ line_no = 1
    /\ current_statement = <<>>
    /\ in_datalines = FALSE /\ in_data_step = FALSE
    /\ run_pc = "exec" /\ stmt_no = 1
    /\ \E t \in FrameTables : data_sets = <<[name |-> "work.a", table |-> t]>>
    /\ \E l \in LibraryStates :
          libraries = l.libraries /\ lib_store = l.lib_store
    /\ macro_variables = <<>>
    /\ outcomes = <<>> /\ proc_calls = <<>> /\ api_calls = 1
    /\ EvIdle /\ DlIdle

FrameNext == ExecuteProc \/ FinishRun

FrameSpec == FrameInit /\ [][FrameNext]_vars

----------------------------------------------------------------------------
(* DATA steps that create and re-create tables, and a PROC without DATA=   *)

MaxOrder == 4

OrderMenu ==
    { JoinNL(<< <<"data", "work.a", SEMI>>, <<"input", "x", "y", "$", SEMI>>,
                <<"datalines", SEMI>>, <<"5", "lo">>, <<"15", "hi">>,
                <<SEMI>>, <<"run", SEMI>> >>),
      JoinNL(<< <<"data", "work.b", SEMI>>, <<"set", "work.a", SEMI>>,
                <<"where", "x", ">", "10", SEMI>>, <<"run", SEMI>> >>),
      JoinNL(<< <<"proc", "print">>, <<"run", SEMI>> >>) }

OrderInit == RunInit(UNION { [1..n -> OrderMenu] : n \in 1..MaxOrder })

OrderNext == ExecuteDataStep \/ ExecuteProc \/ FinishRun

OrderSpec == OrderInit /\ [][OrderNext]_vars

----------------------------------------------------------------------------
(* A session: the caller's run_code and clear_workspace calls on one       *)
(* interpreter                                                             *)

MaxCalls == 4

\* the name of a macro reference token, "" for any other token
MacroRefOf(t) == CASE t = "&a" -> "a" [] OTHER -> ""

\* MacroParser.process_macro_code: the reference to a bound macro variable
\* is replaced by its text, any other token stays
process_macro_code(code) ==
    [i \in 1..Len(code) |->
        Flatten([k \in 1..Len(code[i]) |->
                    IF /\ MacroRefOf(code[i][k]) # ""
                       /\ DictHas(macro_variables, MacroRefOf(code[i][k]))
                    THEN DictGet(macro_variables, MacroRefOf(code[i][k]))
                    ELSE <<code[i][k]>>])]

\* scripts with one statement per line (src/test_basic.py,
\* src/test_final_suite.py)
DatalinesScript ==
    << <<>>,
       <<"data", "work.t", SEMI>>, <<"input", "n", "$", "v", SEMI>>,
       <<"datalines", SEMI>>, <<"x", "1">>, <<"y", "2">>, <<SEMI>>,
       <<"run", SEMI>>,
       <<"proc", "print", "data=work.t", SEMI>>, <<"run", SEMI>> >>

LibraryScript ==
    << <<"libname", "lib", SQ, "./x", SQ, SEMI>>,
       <<"data", "lib.t", SEMI>>, <<"set", "work.t", SEMI>>,
       <<"run", SEMI>> >>

PrintScript == << <<"proc", "print", "data=lib.t", SEMI>> >>

MacroScript == << <<"%let", "a", "=", "1", SEMI>>, <<"var", "x">>, <<"&a">> >>

\* two DATA steps that read the same library table
CacheScript ==
    << <<"data", "work.b", SEMI>>, <<"set", "lib.t", SEMI>>,
       <<"y", "=", "5", SEMI>>, <<"run", SEMI>>,
       <<"data", "work.o", SEMI>>, <<"set", "lib.t", SEMI>>,
       <<"run", SEMI>> >>

\* a procedure named in capitals, a procedure that is not registered and a
\* DATA step after it (src/test_final_suite.py)
ProcCaseScript ==
    << <<"PROC", "PRINT", "data=work.t", SEMI>>, <<"run", SEMI>>,
       <<"proc", "bogus", "data=lib.t", "out=s", SEMI>>, <<"run", SEMI>>,
       <<"data", "work.o", SEMI>>, <<"set", "work.t", SEMI>>,
       <<"run", SEMI>> >>

SessionScripts ==
    {DatalinesScript, LibraryScript, PrintScript, MacroScript, CacheScript,
     ProcCaseScript}

\* no call is in progress
BetweenCalls == (seg_pc = "off" /\ run_pc = "off") \/ run_pc = "done"

\* run_code is entered: the macro pass has produced the text to clean
RunCode ==
    /\ BetweenCalls
    /\ api_calls < MaxCalls
    /\ \E script \in SessionScripts : sas_code' = process_macro_code(script)
    /\ lines' = <<>> /\ seg_pc' = "clean" /\ line_no' = 1
    /\ statements' = <<>> /\ current_statement' = <<>>
    /\ in_datalines' = FALSE /\ in_data_step' = FALSE
    /\ run_pc' = "off" /\ stmt_no' = 1 /\ outcomes' = <<>>
    /\ api_calls' = api_calls + 1
    /\ UNCHANGED <<data_sets, libraries, lib_store, macro_variables,
                   proc_calls>>
    /\ UNCHANGED <<evVars, dlVars, kernelVars>>

\* the for loop of run_code starts on the statements of _split_statements
StartRun ==
    /\ seg_pc = "done" /\ run_pc = "off"
    /\ run_pc' = "exec"
    /\ UNCHANGED <<stmt_no, data_sets, libraries, lib_store, macro_variables,
                   outcomes, proc_calls, api_calls>>
    /\ UNCHANGED <<segVars, evVars, dlVars, kernelVars>>

\* a clearing that also forgets the library aliases
ClearWorkspaceAndAliases ==
    /\ BetweenCalls
    /\ api_calls < MaxCalls
    /\ data_sets' = <<>>
    /\ libraries' = {}
    /\ api_calls' = api_calls + 1
    /\ UNCHANGED <<run_pc, stmt_no, lib_store, macro_variables, outcomes,
                   proc_calls>>
    /\ UNCHANGED <<segVars, evVars, dlVars, kernelVars>>

\* clear_workspace: the dictionaries of the interpreter are emptied; the
\* LibnameManager and the MacroParser keep what they hold
ClearWorkspace ==
    /\ BetweenCalls
    /\ api_calls < MaxCalls
    /\ data_sets' = <<>>
    /\ api_calls' = api_calls + 1
    /\ UNCHANGED <<run_pc, stmt_no, libraries, lib_store, macro_variables,
                   outcomes, proc_calls>>
    /\ UNCHANGED <<segVars, evVars, dlVars, kernelVars>>

\* the interpreter after construction, before the first call
SessionInit ==
    /\ SegIdle /\ EvIdle /\ DlIdle
    /\ run_pc = "off" /\ stmt_no = 1
    /\ data_sets = <<>>
    /\ \E l \in LibraryStates :
          libraries = l.libraries /\ lib_store = l.lib_store
    /\ macro_variables = <<>>
    /\ outcomes = <<>> /\ proc_calls = <<>> /\ api_calls = 0

SessionNext ==
    \/ RunCode
    \/ ClearWorkspace
    \/ CleanCode
    \/ SplitBlank
    \/ SplitData
    \/ SplitProc
    \/ SplitRun
    \/ SplitDatalinesStart
    \/ SplitDatalinesEnd
    \/ SplitDatalinesBody
    \/ SplitInDataStep
    \/ SplitSemi
    \/ SplitKeyword
    \/ SplitAccumulate
    \/ SplitFinish
    \/ StartRun
    \/ ExecuteDataStep
    \/ ExecuteProc
    \/ ExecuteLibname
    \/ ExecuteLet
    \/ Unsupported
    \/ FinishRun

SessionSpec == SessionInit /\ [][SessionNext]_vars

----------------------------------------------------------------------------
(* OSASKernel: the cells of a notebook executed on one interpreter         *)

\* the cells sent to the kernel
KernelCells == {DatalinesScript, LibraryScript, CacheScript}

\* set(self.interpreter.data_sets.keys())
Keys(d) == {d[i].name : i \in 1..Len(d)}

\* do_execute on a cell without text: `if not code.strip()` returns ok
DoExecuteEmpty ==
    /\ BetweenCalls
    /\ api_calls < MaxCalls
    /\ api_calls' = api_calls + 1
    /\ UNCHANGED <<run_pc, stmt_no, data_sets, libraries, lib_store,
                   macro_variables, outcomes, proc_calls>>
    /\ UNCHANGED <<segVars, evVars, dlVars, cellVars, loopVars>>

\* do_execute up to the call of run_code: the names bound before the
\* execution are recorded and the interpreter starts on the cell
DoExecute ==
    /\ BetweenCalls
    /\ api_calls < MaxCalls
    /\ \E s \in BOOLEAN : silent' = s
    /\ datasets_before' = Keys(data_sets)
    /\ datasets_display' = {}
    /\ \E code \in KernelCells : sas_code' = process_macro_code(code)
    /\ lines' = <<>> /\ seg_pc' = "clean" /\ line_no' = 1
    /\ statements' = <<>> /\ current_statement' = <<>>
    /\ in_datalines' = FALSE /\ in_data_step' = FALSE
    /\ run_pc' = "off" /\ stmt_no' = 1 /\ outcomes' = <<>>
    /\ api_calls' = api_calls + 1
    /\ UNCHANGED <<data_sets, libraries, lib_store, macro_variables,
                   proc_calls>>
    /\ UNCHANGED <<evVars, dlVars, loopVars>>

\* _get_new_datasets_info: the names bound now that were not bound before
get_new_datasets_info(before) == Keys(data_sets) \ before

\* run_code has returned: the datasets of _get_new_datasets_info are sent
\* to the display unless there are none or the cell is silent
DoExecuteReturn ==
    /\ run_pc = "exec"
    /\ stmt_no > Len(statements)
    /\ run_pc' = "done"
    /\ datasets_display' =
           IF silent THEN {} ELSE get_new_datasets_info(datasets_before)
    /\ UNCHANGED <<stmt_no, data_sets, libraries, lib_store, macro_variables,
                   outcomes, proc_calls, api_calls>>
    /\ UNCHANGED <<silent, datasets_before>>
    /\ UNCHANGED <<segVars, evVars, dlVars, loopVars>>

\* the kernel after construction, before the first cell
CellInit == SessionInit

CellNext ==
    \/ DoExecuteEmpty
    \/ DoExecute
    \/ CleanCode
    \/ SplitBlank
    \/ SplitData
    \/ SplitProc
    \/ SplitRun
    \/ SplitDatalinesStart
    \/ SplitDatalinesEnd
    \/ SplitDatalinesBody
    \/ SplitInDataStep
    \/ SplitSemi
    \/ SplitFinish
    \/ StartRun
    \/ ExecuteDataStep
    \/ ExecuteProc
    \/ ExecuteLibname
    \/ DoExecuteReturn

CellSpec == CellInit /\ [][CellNext]_vars

----------------------------------------------------------------------------
(* SimpleOSASKernel.run: the loop that serves the shell and control sockets *)

MaxRequests == 2

\* the code of an execute_request: none, a PROC, or a LIBNAME and a DATA
\* step
LoopCodes == {<<>>, PrintScript, LibraryScript}

\* a multipart message: `parts` frames, the header's msg_type, and the
\* content frame; `id` stands for the header that replies carry as parent
Message(id, parts, msg_type, code, s) ==
    [id |-> id, parts |-> parts, msg_type |-> msg_type, code |-> code,
     silent |-> s]

\* what a client can send as the id-th message on the shell socket
ShellMessages(id) ==
    { Message(id, 7, "execute_request", code, s) :
        code \in LoopCodes, s \in BOOLEAN }
    \cup { Message(id, 5, "execute_request", <<>>, FALSE),
           Message(id, 3, "execute_request", PrintScript, FALSE),
           Message(id, 7, "kernel_info_request", <<>>, FALSE) }

ShellQueues ==
    UNION { { q \in [1..n -> UNION { ShellMessages(i) : i \in 1..n }] :
                \A i \in 1..n : q[i].id = i }
          : n \in 0..MaxRequests }

\* content = json.loads(msg[6]) if len(msg) > 6 else {}, and the defaults
\* of content.get
ContentCode(msg) == IF msg.parts > 6 THEN msg.code ELSE <<>>
ContentSilent(msg) == IF msg.parts > 6 THEN msg.silent ELSE FALSE

\* code.strip() is empty
IsBlankCode(code) == \A i \in 1..Len(code) : code[i] = <<>>

\* the number of messages the kernel has sent
Sent == Len(shell_out) + Len(iopub_out) + Len(control_out)

\* _send_message: the message, with the position it has among all the
\* messages sent
Reply(msg_type, status, count, parent, seq) ==
    [msg_type |-> msg_type, status |-> status, execution_count |-> count,
     parent |-> parent, seq |-> seq]

\* the status message of an execution state, sent unless the request is
\* silent
StatusUnlessSilent(s, state, parent, seq) ==
    IF s THEN <<>> ELSE <<Reply("status", state, 0, parent, seq)>>

\* the number of messages that announce busy
Busy(s) == IF s THEN 0 ELSE 1

\* a count that grows with every request
NextCountAlways(ran) == execution_count + 1

\* self.execution_count after a request: one more when code was run
NextCount(ran) == IF ran THEN execution_count + 1 ELSE execution_count

\* the message that _handle_shell_message receives
ShellMsg == shell_in[shell_no]

ShellReady == loop_pc = "poll" /\ shell_no <= Len(shell_in)

\* the interpreter is left alone
InterpreterUnchanged == UNCHANGED <<segVars, evVars, dlVars, runVars>>

\* a message of fewer than five frames is dropped
ShellMalformed ==
    /\ ShellReady
    /\ ShellMsg.parts < 5
    /\ shell_no' = shell_no + 1
    /\ UNCHANGED <<loop_pc, shell_in, control_in, shell_out, iopub_out,
                   control_out, execution_count, cellVars>>
    /\ InterpreterUnchanged

\* _handle_kernel_info_request
ShellInfo ==
    /\ ShellReady
    /\ ShellMsg.parts >= 5
    /\ ShellMsg.msg_type = "kernel_info_request"
    /\ shell_no' = shell_no + 1
    /\ shell_out' = Append(shell_out,
                           Reply("kernel_info_reply", "ok", 0, ShellMsg.id,
                                 Sent))
    /\ UNCHANGED <<loop_pc, shell_in, control_in, iopub_out, control_out,
                   execution_count, cellVars>>
    /\ InterpreterUnchanged

\* an execute_request of at least five frames
ExecuteReady ==
    /\ ShellReady
    /\ ShellMsg.parts >= 5
    /\ ShellMsg.msg_type = "execute_request"

\* _handle_execute_request on empty code: busy, the reply with the count
\* as it is, idle
ShellExecuteEmpty ==
    /\ ExecuteReady
    /\ IsBlankCode(ContentCode(ShellMsg))
    /\ shell_no' = shell_no + 1
    /\ silent' = ContentSilent(ShellMsg)
    /\ execution_count' = NextCount(FALSE)
    /\ shell_out' =
           Append(shell_out,
                  Reply("execute_reply", "ok", NextCount(FALSE), ShellMsg.id,
                        Sent + Busy(ContentSilent(ShellMsg))))
    /\ iopub_out' =
           iopub_out
           \o StatusUnlessSilent(ContentSilent(ShellMsg), "busy",
                                 ShellMsg.id, Sent)
           \o StatusUnlessSilent(ContentSilent(ShellMsg), "idle",
                                 ShellMsg.id, Sent + 2)
    /\ UNCHANGED <<loop_pc, shell_in, control_in, control_out,
                   datasets_before, datasets_display>>
    /\ InterpreterUnchanged

\* _handle_execute_request when run_code raises in its macro pass: busy,
\* the error on iopub, the error reply with the count as it is, idle
ShellExecuteRaise ==
    /\ ExecuteReady
    /\ ~IsBlankCode(ContentCode(ShellMsg))
    /\ shell_no' = shell_no + 1
    /\ silent' = ContentSilent(ShellMsg)
    /\ execution_count' = NextCount(FALSE)
    /\ shell_out' =
           Append(shell_out,
                  Reply("execute_reply", "error", NextCount(FALSE),
                        ShellMsg.id, Sent + Busy(ContentSilent(ShellMsg)) + 1))
    /\ iopub_out' =
           iopub_out
           \o StatusUnlessSilent(ContentSilent(ShellMsg), "busy",
                                 ShellMsg.id, Sent)
           \o <<Reply("error", "SASError", 0, ShellMsg.id,
                      Sent + Busy(ContentSilent(ShellMsg)))>>
           \o StatusUnlessSilent(ContentSilent(ShellMsg), "idle",
                                 ShellMsg.id, Sent + 3)
    /\ UNCHANGED <<loop_pc, shell_in, control_in, control_out,
                   datasets_before, datasets_display>>
    /\ InterpreterUnchanged

\* _handle_execute_request up to the statements of run_code: busy is sent
\* and the interpreter starts on the code
ShellExecuteBegin ==
    /\ ExecuteReady
    /\ ~IsBlankCode(ContentCode(ShellMsg))
    /\ shell_no' = shell_no + 1
    /\ silent' = ContentSilent(ShellMsg)
    /\ iopub_out' =
           iopub_out
           \o StatusUnlessSilent(ContentSilent(ShellMsg), "busy",
                                 ShellMsg.id, Sent)
    /\ loop_pc' = "run"
    /\ sas_code' = process_macro_code(ContentCode(ShellMsg))
    /\ lines' = <<>> /\ seg_pc' = "clean" /\ line_no' = 1
    /\ statements' = <<>> /\ current_statement' = <<>>
    /\ in_datalines' = FALSE /\ in_data_step' = FALSE
    /\ run_pc' = "off" /\ stmt_no' = 1 /\ outcomes' = <<>>
    /\ api_calls' = api_calls + 1
    /\ UNCHANGED <<data_sets, libraries, lib_store, macro_variables,
                   proc_calls>>
    /\ UNCHANGED <<shell_in, control_in, shell_out, control_out,
                   execution_count, datasets_before, datasets_display>>
    /\ UNCHANGED <<evVars, dlVars>>

\* run_code has returned: the count grows, the reply carries it, idle is
\* sent
ShellExecuteReturn ==
    /\ loop_pc = "run"
    /\ run_pc = "exec"
    /\ stmt_no > Len(statements)
    /\ run_pc' = "done"
    /\ loop_pc' = "poll"
    /\ execution_count' = NextCount(TRUE)
    /\ shell_out' =
           Append(shell_out,
                  Reply("execute_reply", "ok", NextCount(TRUE),
                        shell_in[shell_no - 1].id, Sent))
    /\ iopub_out' =
           iopub_out
           \o StatusUnlessSilent(silent, "idle", shell_in[shell_no - 1].id,
                                 Sent + 1)
    /\ UNCHANGED <<stmt_no, data_sets, libraries, lib_store, macro_variables,
                   outcomes, proc_calls, api_calls>>
    /\ UNCHANGED <<shell_in, shell_no, control_in, control_out, cellVars>>
    /\ UNCHANGED <<segVars, evVars, dlVars>>

\* _handle_control_message on a shutdown_request: the reply is sent
ControlShutdown ==
    /\ loop_pc = "poll"
    /\ control_in # <<>>
    /\ control_in' = Tail(control_in)
    /\ control_out' =
           IF Head(control_in).parts >= 5
              /\ Head(control_in).msg_type = "shutdown_request"
           THEN Append(control_out,
                       Reply("shutdown_reply", "ok", 0, Head(control_in).id,
                             Sent))
           ELSE control_out
    /\ UNCHANGED <<loop_pc, shell_in, shell_no, shell_out, iopub_out,
                   execution_count, cellVars>>
    /\ InterpreterUnchanged

\* KeyboardInterrupt in poll: the loop is left and the sockets are closed
KeyboardInterrupt ==
    /\ loop_pc = "poll"
    /\ loop_pc' = "closed"
    /\ UNCHANGED <<shell_in, shell_no, control_in, shell_out, iopub_out,
                   control_out, execution_count, cellVars>>
    /\ InterpreterUnchanged

\* the kernel in its loop after construction, with the messages that its
\* client sends
LoopInit ==
    /\ SegIdle /\ EvIdle /\ CellIdle
    /\ dl_pc = "off" /\ dl_code = <<>> /\ dl_out = EmptyFrame
    /\ run_pc = "off" /\ stmt_no = 1
    /\ data_sets = <<>>
    /\ \E l \in LibraryStates :
          libraries = l.libraries /\ lib_store = l.lib_store
    /\ macro_variables = <<>>
    /\ outcomes = <<>> /\ proc_calls = <<>> /\ api_calls = 0
    /\ loop_pc = "poll"
    /\ shell_in \in ShellQueues /\ shell_no = 1
    /\ control_in \in {<<>>, <<Message(0, 7, "shutdown_request", <<>>, FALSE)>>}
    /\ shell_out = <<>> /\ iopub_out = <<>> /\ control_out = <<>>
    /\ execution_count = 0

\* what the kernel does by itself
LoopStep ==
    \/ ShellMalformed
    \/ ShellInfo
    \/ ShellExecuteEmpty
    \/ ShellExecuteRaise
    \/ ShellExecuteBegin
    \/ CleanCode
    \/ SplitData
    \/ SplitProc
    \/ SplitRun
    \/ SplitInDataStep
    \/ SplitSemi
    \/ SplitFinish
    \/ StartRun
    \/ ExecuteDataStep
    \/ ExecuteProc
    \/ ExecuteLibname
    \/ ShellExecuteReturn
    \/ ControlShutdown

LoopNext == LoopStep \/ KeyboardInterrupt

LoopSpec == LoopInit /\ [][LoopNext]_vars

\* the loop goes on as long as it is not interrupted
LoopFairSpec == LoopSpec /\ WF_vars(LoopStep)

----------------------------------------------------------------------------
(* Properties of segmentation                                              *)

\* position i of s holds a ';' outside every quoted span of s
SemiOutsideQuotes(s, i) ==
    /\ s[i] = SEMI
    /\ Count(SubSeq(s, 1, i - 1), DQ) % 2 = 0
    /\ Count(SubSeq(s, 1, i - 1), SQ) % 2 = 0

UnquotedSemis(s) == Cardinality({i \in 1..Len(s) : SemiOutsideQuotes(s, i)})

LastBlock(ss) == ss[Len(ss)]

\* C1: when segmentation is done, the emitted blocks, concatenated in order
\* with the line joins removed, are exactly the non-blank lines of the
\* cleaned input in input order: nothing is discarded or duplicated.
SegmentationLossless ==
    seg_pc = "done" => Remove(Flatten(statements), NL) = Flatten(lines)

\* C2: outside datalines mode, a block is never ended by a ';' that lies
\* inside a quoted span: a step that emits a block ending in ';' emits one
\* whose final ';' is outside every quoted span of the block.
QuotedSemiNeverSplits ==
    [][ ( /\ InLoop
          /\ ~in_datalines
          /\ Len(statements') = Len(statements) + 1
          /\ EndsWithSemi(LastBlock(statements')) )
        => SemiOutsideQuotes(LastBlock(statements'),
                             Len(LastBlock(statements'))) ]_vars

\* C3: with no block open and outside datalines mode, every ';' outside a
\* quoted span is a statement boundary: a block emitted from an ordinary
\* line holds at most one such ';' (two statements are two blocks).
EverySemiIsBoundary ==
    [][ ( /\ InLoop
          /\ ~in_datalines /\ ~in_data_step
          /\ current_statement = <<>>
          /\ ~IsData /\ ~IsProc
          /\ Len(statements') = Len(statements) + 1 )
        => UnquotedSemis(LastBlock(statements')) <= 1 ]_vars

----------------------------------------------------------------------------
(* Properties of statement dispatch                                        *)

\* C4: the statements are dispatched once each in segmentation order, no
\* failure of a statement ends the run, and a finished run has dispatched
\* every statement.
DispatchInOrder ==
    run_pc \in {"exec", "done", "aborted"}
    => /\ run_pc # "aborted"
       /\ Len(outcomes) = stmt_no - 1
       /\ \A k \in 1..Len(outcomes) : outcomes[k].stmt = k
       /\ run_pc = "done" => Len(outcomes) = Len(statements)

\* a finished run in which a statement raised, another reported an error,
\* and a later statement was dispatched and succeeded
DispatchInOrderWitness ==
    /\ run_pc = "done"
    /\ \E i, j \in 1..Len(outcomes) :
          /\ i < j
          /\ outcomes[i].status = "exception"
          /\ outcomes[j].status = "ok"
    /\ \E i \in 1..Len(outcomes) : outcomes[i].status = "error"

\* C5: a statement that fails leaves every table bound in the Workspace
\* bound, at its place, to the same contents.
FailureKeepsTables ==
    [][ ( /\ Len(outcomes') = Len(outcomes) + 1
          /\ outcomes'[Len(outcomes')].status \in Failed )
        => /\ Len(data_sets') >= Len(data_sets)
           /\ \A i \in 1..Len(data_sets) : data_sets'[i] = data_sets[i] ]_vars

\* a DATA step that read a bound table raised after an earlier statement
\* had produced that table, and the table is still bound
FailureKeepsTablesWitness ==
    /\ Len(outcomes) >= 2
    /\ outcomes[1].status = "ok"
    /\ outcomes[2].status = "exception"
    /\ StartsWithWord(statements[2], "DATA")
    /\ DictHas(data_sets, "work.a")
    /\ DictGet(data_sets, "work.a").columns = <<"x", "y">>

\* C6: a DATA step with SET whose output name differs from its source name
\* leaves the table bound to the source name as it was, or, when the source
\* is loaded in this step, as the library holds it.
SourceTableUntouched ==
    [][ ( /\ InRun
          /\ StartsWithWord(Statement, "DATA")
          /\ ~MentionsDatalines(Statement)
          /\ parse_data_step(Statement).set_datasets # <<>>
          /\ parse_data_step(Statement).output_dataset
                 # parse_data_step(Statement).set_datasets[1]
          /\ stmt_no' = stmt_no + 1 )
        => LET source == parse_data_step(Statement).set_datasets[1] IN
           /\ DictHas(data_sets, source)
                 => DictGet(data_sets', source) = DictGet(data_sets, source)
           /\ (~DictHas(data_sets, source) /\ DictHas(data_sets', source))
                 => DictGet(data_sets', source) = DictGet(lib_store, source)
      ]_vars

\* C7: whatever the order of the lines of the step, the output table has
\* the columns z and c when the step drops b and renames a to z, and the
\* columns z and b when it keeps a, b and renames a to z.
ColumnOpsOrderFixed ==
    (run_pc = "done" /\ statements[1] \in StepBlocks)
    => /\ outcomes[1].status = "ok"
       /\ DictHas(data_sets, "work.o")
       /\ LET out == DictGet(data_sets, "work.o") IN
          /\ Len(out.columns) = 2
          /\ Range(out.columns) =
                 IF <<"drop", "b", SEMI>> \in Range(SplitNL(statements[1]))
                 THEN {"z", "c"} ELSE {"z", "b"}

\* a finished step whose DROP and RENAME lines stand before the assignments
\* that create the columns they name
ColumnOpsOrderFixedWitness ==
    /\ run_pc = "done"
    /\ statements =
          << StepBlock(<< <<"drop", "b", SEMI>>, <<"rename", "a=z", SEMI>>,
                          <<"c", "=", "3", SEMI>>, <<"b", "=", "2", SEMI>>,
                          <<"a", "=", "1", SEMI>> >>) >>
    /\ DictGet(data_sets, "work.o").columns = <<"c", "z">>

----------------------------------------------------------------------------
(* Properties of conditional assignment                                    *)

HiStatement ==
    <<"if", "x", ">", "10", "then", "y", "=", SQ, "Hi", SQ, SEMI>>

\* C8: `if x > 10 then y = 'Hi';` on a table with x and without y gives a
\* column y that holds the text Hi on the rows with x > 10 and missing on
\* the other rows.
MaskedAssignWritesLiteral ==
    ( /\ ev_pc = "done"
      /\ ev_stmt = HiStatement
      /\ ~HasCol(ev_data, "y") )
    => /\ HasCol(ev_out, "y")
       /\ \A r \in 1..ev_data.nrows :
             Col(ev_out, "y")[r] =
                 IF Col(ev_data, "x")[r].num > 10
                 THEN Str(<<"Hi">>) ELSE Missing

\* the target column and the selected rows of an IF statement of the form
\* `if x op n then var = ...`
TargetOf(st) == st[ThenPos(st) + 1]
Selected(st, data, r) == Holds(st[3], Col(data, "x")[r].num, FloatOf(st[4]))

----------------------------------------------------------------------------
(* Properties of DATALINES ingestion                                       *)

\* the lines of the block: 1 DATA, 2 INPUT, 3 DATALINES;, then the data
\* lines, then the lone ';' and RUN;
BlockLines == SplitNL(dl_code)
GivenDataLines == SubSeq(BlockLines, 4, Len(BlockLines) - 2)

\* the variables of the INPUT statement: its tokens other than INPUT, $, ;
GivenVarCount == Len(BlockLines[2]) - 2 - Count(BlockLines[2], "$")

GivenVars == InputVars(Tail(DropLast(BlockLines[2])))

MatchingLines ==
    {i \in 1..Len(GivenDataLines) : Len(GivenDataLines[i]) = GivenVarCount}

\* the position among the data lines of the k-th line with matching count
KthMatching(k) ==
    CHOOSE i \in MatchingLines :
        Cardinality({j \in MatchingLines : j <= i}) = k

----------------------------------------------------------------------------
(* Properties of whole sessions                                            *)

\* the for loop of run_code has handled every statement of the script
LoopFinished == run_pc = "exec" /\ stmt_no > Len(statements)

\* the table of the rows `x 1` and `y 2` under `input n $ v;`
ExpectedTable ==
    [columns |-> <<"n", "v">>,
     cells   |-> << <<Str(<<"x">>), Str(<<"y">>)>>, <<Num(1), Num(2)>> >>,
     nrows   |-> 2]

\* C11: when run_code has handled the script of the DATALINES step for
\* work.t followed by proc print data=work.t, work.t is bound to the table
\* with the two rows (x, 1.0) and (y, 2.0), n Text and v Numeric, and the last
\* call of a procedure is PRINT on that same table
EndToEndDatalinesPrint ==
    (LoopFinished /\ sas_code = DatalinesScript) =>
        /\ DictHas(data_sets, "work.t")
        /\ DictGet(data_sets, "work.t") = ExpectedTable
        /\ proc_calls # <<>>
        /\ proc_calls[Len(proc_calls)] =
               [proc_name |-> "PRINT", dataset |-> "work.t",
                data |-> ExpectedTable]

EndToEndDatalinesPrintWitness ==
    /\ run_pc = "done" /\ sas_code = DatalinesScript
    /\ Len(statements) = 2
    /\ DictHas(data_sets, "work.t")
    /\ proc_calls # <<>>
    /\ outcomes = <<[stmt |-> 1, status |-> "ok"], [stmt |-> 2, status |-> "ok"]>>

\* the blocks that _split_statements emits for LibraryScript and PrintScript
LibraryBlock ==
    JoinNL(<< <<"data", "lib.t", SEMI>>, <<"set", "work.t", SEMI>>,
              <<"run", SEMI>> >>)

PrintBlock == <<"proc", "print", "data=lib.t">>

\* C12: a successful `data lib.t; set work.t; run;` under a known alias lib
\* persists the table that work.t resolves to; clearing the Workspace keeps the aliases and
\* the persisted tables; `proc print data=lib.t` with lib.t unbound and
\* loadable calls PRINT on the persisted table and binds that table to lib.t
LibraryRoundTrip ==
    [][ /\ ( /\ InRun /\ Statement = LibraryBlock
             /\ "lib" \in libraries
             /\ outcomes' = Append(outcomes,
                                   [stmt |-> stmt_no, status |-> "ok"]) )
           => /\ DictHas(lib_store', "lib.t")
              /\ DictGet(lib_store', "lib.t") =
                     IF DictHas(data_sets, "work.t")
                     THEN DictGet(data_sets, "work.t")
                     ELSE DictGet(lib_store, "work.t")
        /\ (data_sets # <<>> /\ data_sets' = <<>>)
           => (libraries' = libraries /\ lib_store' = lib_store)
        /\ ( /\ InRun /\ Statement = PrintBlock
             /\ ~DictHas(data_sets, "lib.t") /\ CanLoad("lib.t")
             /\ stmt_no' = stmt_no + 1 )
           => /\ proc_calls' =
                    Append(proc_calls,
                           [proc_name |-> "PRINT", dataset |-> "lib.t",
                            data |-> DictGet(lib_store, "lib.t")])
              /\ DictHas(data_sets', "lib.t")
              /\ DictGet(data_sets', "lib.t") = DictGet(lib_store, "lib.t")
              /\ lib_store' = lib_store
      ]_vars

\* the table of work.t went to the library, the Workspace was cleared, and
\* PRINT has been called on the table loaded back
LibraryRoundTripWitness ==
    /\ run_pc = "done" /\ sas_code = PrintScript
    /\ "lib" \in libraries
    /\ DictHas(lib_store, "lib.t")
    /\ DictGet(lib_store, "lib.t") = ExpectedTable
    /\ data_sets = <<[name |-> "lib.t", table |-> ExpectedTable]>>
    /\ proc_calls[Len(proc_calls)] =
           [proc_name |-> "PRINT", dataset |-> "lib.t", data |-> ExpectedTable]

----------------------------------------------------------------------------
(* Properties of source resolution and of the Workspace bindings           *)

\* where the claim makes a statement look for the table `name`
Resolved(name) ==
    IF DictHas(data_sets, name) THEN "workspace"
    ELSE IF IsQualified(name) /\ CanLoad(name) THEN "library"
    ELSE "none"

ResolvedTable(name) ==
    IF DictHas(data_sets, name) THEN DictGet(data_sets, name)
    ELSE DictGet(lib_store, name)

\* the loop of run_code has gone on to the next statement after an error
ErrorAndOn ==
    /\ outcomes' = Append(outcomes, [stmt |-> stmt_no, status |-> "error"])
    /\ run_pc' = "exec" /\ stmt_no' = stmt_no + 1

\* a DATA step with a SET statement is handled in this step
SetStepOf(info) ==
    /\ InRun /\ StartsWithWord(Statement, "DATA")
    /\ ~MentionsDatalines(Statement)
    /\ info.set_datasets # <<>>
    /\ stmt_no' = stmt_no + 1

DataResolution(info, name) ==
    SetStepOf(info) =>
        /\ Resolved(name) = "none"
           => ErrorAndOn /\ data_sets' = data_sets /\ lib_store' = lib_store
        /\ Resolved(name) # "none" => DictHas(data_sets', name)
        /\ ( /\ Resolved(name) # "none"
             /\ StepOps(info) = <<>>
             /\ info.drop_vars = <<>> /\ info.keep_vars = <<>>
             /\ info.rename_vars = <<>> )
           => /\ DictHas(data_sets', info.output_dataset)
              /\ DictGet(data_sets', info.output_dataset) = ResolvedTable(name)

\* a PRINT with a DATA= option is handled in this step
PrintStepOf(info) ==
    /\ InRun /\ StartsWithWord(Statement, "PROC")
    /\ info.proc_name = "PRINT" /\ info.data_option # ""
    /\ stmt_no' = stmt_no + 1

ProcResolution(info, name) ==
    PrintStepOf(info) =>
        /\ Resolved(name) = "none"
           => ErrorAndOn /\ data_sets' = data_sets /\ proc_calls' = proc_calls
        /\ Resolved(name) # "none"
           => /\ proc_calls' =
                    Append(proc_calls,
                           [proc_name |-> "PRINT", dataset |-> name,
                            data |-> ResolvedTable(name)])
              /\ data_sets' = IF Resolved(name) = "library"
                              THEN DictSet(data_sets, name, ResolvedTable(name))
                              ELSE data_sets

\* C13: a DATA step with SET and a PROC with DATA= use the table bound in
\* the Workspace when there is one, else the table the library loads for a
\* qualified name, which is then bound under that name; with neither the
\* statement ends with an error, nothing is bound or called, and the loop
\* goes on to the next statement
SourceResolutionOrder ==
    [][ /\ (InRun /\ StartsWithWord(Statement, "DATA"))
           => DataResolution(parse_data_step(Statement),
                             parse_data_step(Statement).set_datasets[1])
        /\ (InRun /\ StartsWithWord(Statement, "PROC"))
           => ProcResolution(parse_proc(Statement),
                             parse_proc(Statement).data_option)
      ]_vars

\* lib.t is bound in the Workspace to a table other than the one the library
\* holds, and a later step has copied the Workspace's table
SourceResolutionOrderWitness ==
    /\ run_pc = "done" /\ sas_code = CacheScript
    /\ DictHas(data_sets, "lib.t") /\ DictHas(lib_store, "lib.t")
    /\ DictGet(data_sets, "lib.t") # DictGet(lib_store, "lib.t")
    /\ DictHas(data_sets, "work.o")
    /\ DictGet(data_sets, "work.o") = DictGet(data_sets, "lib.t")

\* every name is bound once
UniqueKeys(d) == \A i, j \in 1..Len(d) : d[i].name = d[j].name => i = j

\* the name a statement writes its result to, "" when it writes none
Written(statement) ==
    IF StartsWithWord(statement, "DATA")
    THEN OutputDataset(DataStatement(SplitNL(statement)))
    ELSE IF StartsWithWord(statement, "PROC")
    THEN parse_proc(statement).output_option
    ELSE ""

\* the table a DATA step makes from its text and its source table
Produced(statement, info) ==
    IF MentionsDatalines(statement) THEN parse_datalines(statement)
    ELSE ApplyColumnOps(info,
             ApplyOps(StepOps(info), Len(StepOps(info)),
                      IF info.set_datasets = <<>> THEN EmptyFrame
                      ELSE ResolvedTable(info.set_datasets[1])))

\* the statement handled in this step has ended with status "ok"
EndsOk == outcomes' = Append(outcomes, [stmt |-> stmt_no, status |-> "ok"])

----------------------------------------------------------------------------
(* Properties of the segmenter's modes                                     *)

\* the line of the script that the loop is at, before comment stripping
RawLine == sas_code[line_no]

\* the loop handles one line in this step
LineStep == seg_pc = "split" /\ line_no <= Len(lines) /\ line_no' = line_no + 1

\* the open block is a DATA step with a DATALINES;/CARDS; line in it
InDatalines ==
    /\ in_datalines /\ in_data_step
    /\ StartsWithWord(current_statement, "DATA")
    /\ \E i \in 1..(Len(current_statement) - 2) :
          /\ current_statement[i] = NL
          /\ Upper(current_statement[i + 1]) \in {"DATALINES", "CARDS"}
          /\ current_statement[i + 2] = SEMI

\* C15: in datalines mode of an open DATA step every line is appended as it
\* stands in the script and nothing else changes; the line that is a lone
\* ';' is appended and ends datalines mode, the DATA step staying open
DatalinesVerbatim ==
    [][ (LineStep /\ InDatalines) =>
          /\ current_statement' = current_statement \o <<NL>> \o RawLine
          /\ statements' = statements
          /\ in_data_step'
          /\ in_datalines' = (RawLine # <<SEMI>>)
      ]_vars

\* the kinds of line that the segmenter and the claims tell apart
IsHeaderLine(l) == StartsWithWord(l, "DATA") \/ StartsWithWord(l, "PROC")
IsRunLine(l) == IsWordSemi(l, "RUN")
IsQuitLine(l) == IsWordSemi(l, "QUIT")

\* a line such as `var a b;`
IsSubStatement(l) ==
    /\ EndsWithSemi(l)
    /\ \E kw \in SubKeywords : StartsWithWord(l, kw)

\* the header lines before line k with nothing but blank lines and
\* semicolon-terminated sub-statement lines between them and line k
OpenHeaders(k) ==
    { j \in 1..(k - 1) :
        /\ IsHeaderLine(lines[j])
        /\ \A i \in (j + 1)..(k - 1) :
              lines[i] = <<>> \/ IsSubStatement(lines[i]) }

\* text ends with the lines `tail`
EndsWith(text, tail) ==
    /\ Len(text) >= Len(tail)
    /\ SubSeq(text, Len(text) - Len(tail) + 1, Len(text)) = tail

\* the step emits one block, which starts as header line j does and ends
\* with the line handled, and leaves the segmenter with nothing open
EmitsBlockOf(j) ==
    /\ Len(statements') = Len(statements) + 1
    /\ SubSeq(statements', 1, Len(statements)) = statements
    /\ SubSeq(statements'[Len(statements')], 1, 2) = SubSeq(lines[j], 1, 2)
    /\ EndsWith(statements'[Len(statements')], <<NL>> \o Line)
    /\ current_statement' = <<>>
    /\ ~in_data_step' /\ ~in_datalines'

\* C16: a RUN; line, in any letter case, that follows the header of a DATA
\* step or PROC with only blank lines and semicolon-terminated sub-statement
\* lines between closes that block:
\* the block is emitted with the RUN; line as its last line and nothing
\* stays open
RunClosesBlock ==
    [][ (LineStep /\ IsRunLine(Line)) =>
            \A j \in OpenHeaders(line_no) : EmitsBlockOf(j)
      ]_vars

\* a PROC block is pending and the segmenter is in no other mode
ProcBlockOpen ==
    /\ StartsWithWord(current_statement, "PROC")
    /\ ~in_data_step /\ ~in_datalines

\* what the RUN; branch does with the line handled
ClosesLikeRun ==
    /\ statements' = Append(statements,
                            Strip(current_statement \o <<NL>> \o Line))
    /\ current_statement' = <<>>
    /\ ~in_data_step' /\ ~in_datalines'

\* C17: with a PROC block open, a QUIT; line does what a RUN; line does: it
\* is appended as a line of its own, the block is emitted and nothing stays
\* open
QuitLikeRun ==
    [][ (LineStep /\ ProcBlockOpen /\ IsQuitLine(Line)) => ClosesLikeRun ]_vars

\* the last DATA header line before line k
LastDataLine(k) ==
    CHOOSE j \in 1..(k - 1) :
        /\ StartsWithWord(lines[j], "DATA")
        /\ \A i \in (j + 1)..(k - 1) : ~StartsWithWord(lines[i], "DATA")

\* the lines of a block, blank lines left out
BlockLinesOf(text) == SelectSeq(SplitNL(text), LAMBDA l : l # <<>>)

\* the lines j..k of the cleaned script, blank lines left out
ScriptLinesOf(j, k) ==
    SelectSeq([i \in 1..(k - j + 1) |-> lines[j + i - 1]], LAMBDA l : l # <<>>)

\* C18: a PROC line met while a DATA step is open emits the DATA step, from
\* its header line to the line before the PROC line, as one block, makes the
\* PROC line the start of the pending block and leaves DATA-step and
\* datalines mode
ProcEndsDataStep ==
    [][ (LineStep /\ in_data_step /\ StartsWithWord(Line, "PROC")) =>
          /\ Len(statements') = Len(statements) + 1
          /\ SubSeq(statements', 1, Len(statements)) = statements
          /\ BlockLinesOf(statements'[Len(statements')]) =
                 ScriptLinesOf(LastDataLine(line_no), line_no - 1)
          /\ current_statement' =
                 IF EndsWithSemi(Line) THEN DropLast(Line) ELSE Line
          /\ ~in_data_step' /\ ~in_datalines'
      ]_vars

\* a DATA step of several lines without RUN; has been emitted at a PROC line
ProcEndsDataStepWitness ==
    /\ seg_pc = "split" /\ line_no = 4
    /\ StartsWithWord(lines[1], "DATA")
    /\ lines[2] # <<>> /\ ~IsRunLine(lines[2]) /\ ~IsHeaderLine(lines[2])
    /\ StartsWithWord(lines[3], "PROC")
    /\ statements = <<lines[1] \o <<NL>> \o lines[2]>>
    /\ current_statement = DropLast(lines[3])
    /\ ~in_data_step /\ ~in_datalines

\* the line starts with a sub-statement keyword, with or without a ';'
IsKeywordLine(l) == Len(l) >= 1 /\ Upper(l[1]) \in SubKeywords

\* C19: with a PROC block open, a line that starts with TABLES, VAR, BY,
\* CLASS, MODEL, OUTPUT or WHERE becomes a further line of the pending block
\* and no block is emitted
SubStatementStaysInBlock ==
    [][ (LineStep /\ ProcBlockOpen /\ IsKeywordLine(Line)) =>
          /\ statements' = statements
          /\ current_statement' = current_statement \o <<NL>> \o Line
      ]_vars

\* C20: the segmenter is in datalines mode only while a DATA step is open
DatalinesOnlyInDataStep == in_datalines => in_data_step

\* C21: segmentation comes to its end, and the step that ends it, taken when
\* every line has been handled, emits the pending text, if it is not empty,
\* as one last block and emits nothing else
EndOfInputFlush ==
    /\ [][ (seg_pc = "split" /\ seg_pc' = "done") =>
             /\ line_no = Len(lines) + 1
             /\ statements' =
                    IF Strip(current_statement) # <<>>
                    THEN Append(statements, Strip(current_statement))
                    ELSE statements
         ]_vars
    /\ <>(seg_pc = "done")

\* a PROC block without RUN; was pending at the end and is the last block
EndOfInputFlushWitness ==
    /\ seg_pc = "done"
    /\ StartsWithWord(current_statement, "PROC")
    /\ Len(statements) = 2
    /\ statements[2] = Strip(current_statement)

----------------------------------------------------------------------------
(* Properties of comment stripping                                         *)

\* the quote character of the span that is open after the first k tokens of
\* the line, "" when none is: a quote opens a span, the same quote closes it
RECURSIVE OpenQuote(_, _)
OpenQuote(line, k) ==
    IF k = 0 THEN ""
    ELSE LET before == OpenQuote(line, k - 1) IN
         IF line[k] \notin {DQ, SQ} THEN before
         ELSE IF before = "" THEN line[k]
         ELSE IF before = line[k] THEN ""
         ELSE before

\* the positions of the stars outside every quoted span
FreeStars(line) ==
    { i \in 1..Len(line) : line[i] = STAR /\ OpenQuote(line, i - 1) = "" }

\* C22: every cleaned line is the script's line up to its first '*' outside
\* a quoted span, or the whole line when it has none; no cleaned line has a
\* '*' outside a quoted span
CommentStripped ==
    seg_pc = "split" =>
        \A i \in 1..Len(lines) :
            /\ FreeStars(lines[i]) = {}
            /\ \A k \in FreeStars(sas_code[i]) :
                  (\A j \in FreeStars(sas_code[i]) : k <= j)
                  => lines[i] = SubSeq(sas_code[i], 1, k - 1)
            /\ FreeStars(sas_code[i]) = {} => lines[i] = sas_code[i]

----------------------------------------------------------------------------
(* Properties of fail-soft evaluation                                      *)

\* assignments whose expression calls a function that is not registered,
\* is a call without arguments or without its closing parenthesis, or is
\* arithmetic that lacks an operand
FailSoftStatements ==
    { <<"z", "=", "foo", "(", "x", ")", SEMI>>,
      <<"z", "=", "abs", "(", ")", SEMI>>,
      <<"z", "=", "abs", "(", "x", SEMI>>,
      <<"z", "=", "x", "+", SEMI>> }

\* every column of the input is in the output with the cells it had
InputKept(old, new) ==
    \A i \in 1..Len(old.columns) :
        /\ HasCol(new, old.columns[i])
        /\ Col(new, old.columns[i]) = old.cells[i]

\* C23: the evaluation of an assignment with an unknown function name, a
\* malformed call or malformed arithmetic returns the table with the target
\* column holding a zero or a missing value in each of its rows, one per
\* row of the input, and the other columns as they were
FailSoftZeros ==
    (ev_pc = "done" /\ ev_stmt \in FailSoftStatements) =>
        /\ ev_out.nrows = ev_data.nrows
        /\ HasCol(ev_out, "z")
        /\ Len(Col(ev_out, "z")) = ev_data.nrows
        /\ \A r \in 1..ev_data.nrows :
              Col(ev_out, "z")[r] \in {Num(0), Missing}
        /\ InputKept(ev_data, ev_out)

----------------------------------------------------------------------------
(* Properties of the result of an expression                               *)

\* the expression of the assignment and what _evaluate_expression returns
\* for it on the table of the call
ExpressionOf(assignment) == SubSeq(assignment, 3, Len(assignment))

ExpressionResult == evaluate_expression(ExpressionOf(ev_stmt), ev_data)

\* C24: the evaluation of the expression of an assignment returns a column
\* with one value for each row of the table, never a bare scalar and never
\* a column of another length
ColumnPerRow ==
    (ev_pc = "done" /\ ~IsIfStatement(ev_stmt) /\ AssignMatch(ev_stmt)) =>
        /\ ExpressionResult.tag = "series"
        /\ Len(ExpressionResult.cells) = ev_data.nrows

----------------------------------------------------------------------------
(* Properties of the procedure registry                                    *)

\* the loop of run_code hands a PROC block to _execute_proc
ProcStepTaken ==
    InRun /\ StartsWithWord(Statement, "PROC") /\ stmt_no' = stmt_no + 1

\* the name after PROC and the DATA= option as they stand in the block
WrittenProcName == Statement[2]
WrittenDataOption == FirstOption(Statement, "data")

\* the input of the procedure is in the Workspace or in a library
WrittenInputFound ==
    IF WrittenDataOption # ""
    THEN \/ DictHas(data_sets, WrittenDataOption)
         \/ IsQualified(WrittenDataOption) /\ CanLoad(WrittenDataOption)
    ELSE data_sets # <<>>

\* the names bound in a Workspace
BoundNames(d) == {d[i].name : i \in 1..Len(d)}

\* name is bound to the same table, or unbound, in both Workspaces
SameBinding(d, e, name) ==
    /\ DictHas(d, name) = DictHas(e, name)
    /\ DictHas(d, name) => DictGet(d, name) = DictGet(e, name)

\* C25: a PROC block whose name is print in any letter case reaches the
\* PRINT handler when its input is found; a PROC block whose name is not
\* registered ends as an error of that statement: no procedure is called,
\* every name of the Workspace other than the input read from a library
\* keeps its binding, and the loop goes on to the next statement
ProcLookup ==
    [][ ProcStepTaken =>
          /\ run_pc' = "exec"
          /\ (Upper(WrittenProcName) = "PRINT" /\ WrittenInputFound) =>
                /\ outcomes'[Len(outcomes')].status \in {"ok", "exception"}
                /\ outcomes'[Len(outcomes')].status = "ok" =>
                      /\ Len(proc_calls') = Len(proc_calls) + 1
                      /\ proc_calls'[Len(proc_calls')].proc_name = "PRINT"
          /\ Upper(WrittenProcName) \notin ProcImplementations =>
                /\ outcomes'[Len(outcomes')].status = "error"
                /\ proc_calls' = proc_calls
                /\ \A name \in BoundNames(data_sets) \cup BoundNames(data_sets') :
                      \/ SameBinding(data_sets, data_sets', name)
                      \/ /\ name = WrittenDataOption
                         /\ ~DictHas(data_sets, name)
                         /\ DictGet(data_sets', name) = DictGet(lib_store, name)
      ]_vars

\* the script with PROC PRINT, proc bogus and a DATA step has been run: the
\* procedure in capitals was called, the unregistered one was an error and
\* the DATA step after it has bound work.o
ProcLookupWitness ==
    /\ LoopFinished /\ sas_code = ProcCaseScript
    /\ Len(outcomes) = 3
    /\ outcomes[1].status = "ok"
    /\ outcomes[2].status = "error"
    /\ outcomes[3].status = "ok"
    /\ proc_calls # <<>>
    /\ proc_calls[Len(proc_calls)].proc_name = "PRINT"
    /\ DictHas(data_sets, "work.o")
    /\ DictHas(data_sets, "lib.t")
    /\ ~DictHas(data_sets, "s")

----------------------------------------------------------------------------
(* Properties of the effect of an assignment                               *)

\* the target column of the assignment
AssignedColumn(assignment) == assignment[1]

\* C26: the evaluation of an assignment changes only the target column:
\* every other column of the table is in the result with the cells it had,
\* and the result has no column besides those of the table and the target
OnlyTargetChanges ==
    (ev_pc = "done" /\ ~IsIfStatement(ev_stmt) /\ AssignMatch(ev_stmt)) =>
        /\ \A i \in 1..Len(ev_data.columns) :
              ev_data.columns[i] # AssignedColumn(ev_stmt) =>
                  /\ HasCol(ev_out, ev_data.columns[i])
                  /\ Col(ev_out, ev_data.columns[i]) = ev_data.cells[i]
        /\ \A j \in 1..Len(ev_out.columns) :
              \/ ev_out.columns[j] = AssignedColumn(ev_stmt)
              \/ HasCol(ev_data, ev_out.columns[j])

----------------------------------------------------------------------------
(* Properties of the body of a DATA step                                   *)

\* the DATA step of the block has ended without an error
StepOk(block) ==
    /\ LoopFinished
    /\ statements = <<block>>
    /\ outcomes[1].status = "ok"

SourceRows == DictGet(data_sets, "work.a")
OutputRows == DictGet(data_sets, "work.o")

\* the value of x in the source row that output row r comes from
SourceX(r) == Col(SourceRows, "x")[Col(OutputRows, "k")[r].num]

\* C27: after a DATA step with IF c THEN y = a; ELSE y = b; no row has y
\* missing, and two rows have the same y exactly when c holds for both or
\* for neither
ElseTakesEffect ==
    StepOk(BodyBlock(IfElseBody)) =>
        /\ HasCol(OutputRows, "y")
        /\ \A r \in 1..OutputRows.nrows : Col(OutputRows, "y")[r] # Missing
        /\ \A r, q \in 1..OutputRows.nrows :
              (Col(OutputRows, "y")[r] = Col(OutputRows, "y")[q])
                  <=> ((SourceX(r).num > 10) <=> (SourceX(q).num > 10))

\* the column that a line of the body assigns to
AssignedName(line) ==
    IF IsIfStatement(line) THEN TargetOf(line) ELSE line[1]

\* C28: after a DATA step whose body is made of assignment lines and IF
\* lines to new columns, the output has the columns of the source followed
\* by one column for each line of the body, in the order of the lines
AssignmentsInSourceOrder ==
    \A body \in AssignBodies :
        StepOk(BodyBlock(body)) =>
            OutputRows.columns =
                SourceRows.columns
                \o [i \in 1..Len(body) |-> AssignedName(body[i])]

\* the conditions of the WHERE lines of a body
RECURSIVE WhereConds(_)
WhereConds(body) ==
    IF body = <<>> THEN <<>>
    ELSE (IF StartsWithWord(Head(body), "WHERE")
          THEN <<Operands(Head(body))>> ELSE <<>>)
         \o WhereConds(Tail(body))

\* row r of the source satisfies every condition, read on the source
SatisfiesAll(r, conds) ==
    \A i \in 1..Len(conds) :
        LET c == Col(SourceRows, conds[i][1])[r] IN
        c.kind = "num" /\ Holds(conds[i][2], c.num, FloatOf(conds[i][3]))

\* C29: after a DATA step with WHERE lines before, between or after its
\* assignments, the rows of the output are, in source order, exactly the
\* source rows that satisfy every WHERE condition on the source columns;
\* the row count does not grow
WhereBeforeAssignments ==
    \A body \in WhereBodies :
        StepOk(BodyBlock(body)) =>
            /\ Col(OutputRows, "k") =
                   SelectSeq2(Col(SourceRows, "k"),
                              [r \in 1..SourceRows.nrows |->
                                  SatisfiesAll(r, WhereConds(body))])
            /\ OutputRows.nrows = Len(Col(OutputRows, "k"))
            /\ OutputRows.nrows <= SourceRows.nrows

\* a step whose WHERE line follows an assignment to the column it tests has
\* kept some rows of the source and removed others
WhereBeforeAssignmentsWitness ==
    /\ StepOk(BodyBlock(<< <<"x", "=", "0", SEMI>>,
                           <<"where", "x", ">", "10", SEMI>> >>))
    /\ OutputRows.nrows >= 1
    /\ OutputRows.nrows < SourceRows.nrows

----------------------------------------------------------------------------
(* Properties of a DATALINES step without accepted rows                    *)

\* C30: after a DATALINES step for work.a all of whose data lines were
\* dropped, work.a is bound to a table without rows
DroppedRowsObservable ==
    (LoopFinished /\ statements = <<DroppedDatalinesBlock>>) =>
        /\ DictHas(data_sets, "work.a")
        /\ DictGet(data_sets, "work.a").nrows = 0

----------------------------------------------------------------------------
(* Properties of the input of a PROC without DATA=                         *)

\* the statements handled so far that are DATA steps and ended without error
WritingSteps ==
    { i \in 1..Len(outcomes) :
        /\ outcomes[i].status = "ok"
        /\ StartsWithWord(Strip(statements[outcomes[i].stmt]), "DATA") }

\* the name written by the latest of them
LatestWritten ==
    LET i == CHOOSE k \in WritingSteps : \A m \in WritingSteps : m <= k
    IN OutputDataset(DataStatement(SplitNL(statements[outcomes[i].stmt])))

\* C31: a PROC without DATA= that is handed an input is handed the table
\* of the name that the latest successful DATA step wrote
ProcUsesLatestWrite ==
    [][ (/\ ProcStepTaken
         /\ WrittenDataOption = ""
         /\ Len(proc_calls') = Len(proc_calls) + 1) =>
            /\ WritingSteps # {}
            /\ proc_calls'[Len(proc_calls')].dataset = LatestWritten
            /\ proc_calls'[Len(proc_calls')].data =
                   DictGet(data_sets, LatestWritten)
      ]_vars

----------------------------------------------------------------------------
(* Properties of clear_workspace                                           *)

\* the caller's step is a call of clear_workspace, not of run_code
ClearStepTaken ==
    BetweenCalls /\ api_calls' = api_calls + 1 /\ seg_pc' # "clean"

\* C32: after clear_workspace the Workspace holds no table and no macro
\* variable bound by an earlier %LET is bound
ClearResetsSession ==
    [][ ClearStepTaken => data_sets' = <<>> /\ macro_variables' = <<>> ]_vars

----------------------------------------------------------------------------
(* Properties of the dataset display of the kernel                         *)

\* the names that the DATA steps of the cell have written
WrittenNames ==
    { OutputDataset(DataStatement(SplitNL(statements[outcomes[i].stmt]))) :
        i \in WritingSteps }

\* C33: when a cell that is not silent has been executed, every name that
\* a DATA step of the cell wrote is in the dataset display, and every name
\* in the display was written by the cell or was not bound before it
DisplayAllWritten ==
    (run_pc = "done" /\ ~silent) =>
        /\ WrittenNames \subseteq datasets_display
        /\ \A name \in datasets_display :
              name \in WrittenNames \/ name \notin datasets_before

----------------------------------------------------------------------------
\* the PROC header lines of the cleaned script
ProcHeaderLines == { j \in 1..Len(lines) : StartsWithWord(lines[j], "PROC") }

\* the emitted blocks that begin with PROC
EmittedProcBlocks ==
    { i \in 1..Len(statements) : StartsWithWord(statements[i], "PROC") }

\* the script has no DATALINES; or CARDS; line, so no line is inside
\* datalines
NoDatalinesLine ==
    \A j \in 1..Len(lines) :
        ~(IsWordSemi(lines[j], "DATALINES") \/ IsWordSemi(lines[j], "CARDS"))

\* C34: when a script without datalines has been segmented, there are as
\* many emitted blocks that begin with PROC as there are PROC header lines
\* in the script
NoProcSkipped ==
    (seg_pc = "done" /\ NoDatalinesLine) =>
        Cardinality(EmittedProcBlocks) = Cardinality(ProcHeaderLines)

----------------------------------------------------------------------------
(* Properties of the routing of a DATA block                               *)

\* the block has a DATALINES; or CARDS; line
HasDatalinesLine(block) ==
    \E i \in 1..Len(SplitNL(block)) :
        \/ IsWordSemi(SplitNL(block)[i], "DATALINES")
        \/ IsWordSemi(SplitNL(block)[i], "CARDS")

\* the block has a SET line
HasSetLine(block) ==
    \E i \in 1..Len(SplitNL(block)) : StartsWithWord(SplitNL(block)[i], "SET")

\* the DATA step of the block has been executed and raised no error
StepQuiet(block) ==
    /\ LoopFinished
    /\ statements = <<block>>
    /\ outcomes[1].status \in {"ok", "nothing"}

\* C35: after a DATA step with a SET line and no DATALINES; or CARDS; line
\* has been executed without an error, the name of its DATA line is bound
\* in the Workspace
SetStepBindsOutput ==
    \A block \in BodyBlocks :
        (StepQuiet(block) /\ HasSetLine(block) /\ ~HasDatalinesLine(block)) =>
            DictHas(data_sets, OutputDataset(DataStatement(SplitNL(block))))

----------------------------------------------------------------------------
(* Properties of a PROC without OUT=                                       *)

----------------------------------------------------------------------------
(* Properties of the loop of SimpleOSASKernel                              *)

\* the execute_requests among the messages of the shell socket
ExecuteRequests ==
    { i \in 1..Len(shell_in) :
        shell_in[i].parts >= 5 /\ shell_in[i].msg_type = "execute_request" }

\* the handler has returned for message i
Handled(i) == i < shell_no /\ ~(loop_pc = "run" /\ i = shell_no - 1)

\* the execute_reply messages sent for request i
RepliesTo(i) ==
    { k \in 1..Len(shell_out) :
        shell_out[k].msg_type = "execute_reply" /\ shell_out[k].parent = i }

\* the status messages of one execution state published for request i
StatusFor(i, state) ==
    { k \in 1..Len(iopub_out) :
        /\ iopub_out[k].msg_type = "status"
        /\ iopub_out[k].status = state
        /\ iopub_out[k].parent = i }

\* the status messages in the order they were published
StatusMessages ==
    SelectSeq(iopub_out, LAMBDA m : m.msg_type = "status")

\* request i had code that is not empty and was answered with status ok
RanOk(i) ==
    /\ Handled(i)
    /\ ~IsBlankCode(ContentCode(shell_in[i]))
    /\ \E k \in RepliesTo(i) : shell_out[k].status = "ok"

\* C37: every execute_request whose handler has returned has exactly one
\* execute_reply, with status ok or error, and no other has one; when the
\* request is not silent one busy was published before the reply and one
\* idle after it; the status messages alternate between busy and idle; the
\* execution count is the number of requests with code that is not empty
\* that were answered with status ok
OneReplyPerRequest ==
    /\ \A i \in ExecuteRequests :
          /\ Cardinality(RepliesTo(i)) = IF Handled(i) THEN 1 ELSE 0
          /\ \A k \in RepliesTo(i) : shell_out[k].status \in {"ok", "error"}
          /\ (Handled(i) /\ ~ContentSilent(shell_in[i])) =>
                /\ Cardinality(StatusFor(i, "busy")) = 1
                /\ Cardinality(StatusFor(i, "idle")) = 1
                /\ \A k \in RepliesTo(i) :
                      /\ \A b \in StatusFor(i, "busy") :
                            iopub_out[b].seq < shell_out[k].seq
                      /\ \A d \in StatusFor(i, "idle") :
                            shell_out[k].seq < iopub_out[d].seq
    /\ \A k \in 1..Len(StatusMessages) :
          StatusMessages[k].status = IF k % 2 = 1 THEN "busy" ELSE "idle"
    /\ execution_count = Cardinality({ i \in ExecuteRequests : RanOk(i) })

\* two requests that are not silent have been answered, the first with an
\* error and the second, whose code ran, with ok; busy and idle were
\* published for each
OneReplyPerRequestWitness ==
    /\ loop_pc = "poll" /\ shell_no = 3
    /\ ExecuteRequests = {1, 2}
    /\ ~ContentSilent(shell_in[1]) /\ ~ContentSilent(shell_in[2])
    /\ \E k \in RepliesTo(1) : shell_out[k].status = "error"
    /\ RanOk(2)
    /\ execution_count = 1
    /\ Len(StatusMessages) = 4

\* C38: once the shutdown_reply is sent, the loop is eventually left and
\* the sockets are closed
ShutdownEndsLoop == (control_out # <<>>) ~> (loop_pc = "closed")

====
